---- MODULE Spec2Model ----
\* Model of the cross-venue arbitrage analyzer: analyze_markets /
\* calculate_arbitrage (src/src/main.py) and the capital allocator
\* (src/src/capital_allocator.py) under Spec; the slug/title join and the
\* three-venue match of main under SpecMatch; the order-book refinement of
\* the top opportunities under SpecRefine; the extraction of the depth of an
\* order book (src/src/polymarket.py, src/src/opinion.py) under SpecBook.
\*
\* Python floats are modelled as exact rationals [n, d] in lowest terms with
\* d > 0, so equalities between computed amounts are equalities of real
\* numbers; binary rounding of the last bit is not represented.
EXTENDS Integers, Sequences, FiniteSets, TLC

VARIABLES
    pc,             \* position of the run: "analyze", "analyzed", "allocated", "validated", "raised"
    markets,        \* venue-A markets handed to analyze_markets
    price_lookup,   \* venue-B lookup: conditionId -> entry
    idx,            \* index of the market the analyze_markets loop visits next
    last_arb,       \* what calculate_arbitrage returned for the market visited last
    opportunities,  \* the list analyze_markets is building / has returned
    plan,           \* what allocate_capital returned, or None
    warnings,       \* what validate_allocations returned for the plan
    mpc,            \* position of the three-venue run: "predict", "opinion", "match", "done", "raised"
    poly_cat_with_markets,      \* venue-A categories, each with its markets
    opinion_price_lookup,       \* Opinion lookup: slug||title -> entry
    predict_price_lookup,       \* predict.fun lookup: conditionId -> entry
    all_opportunities,          \* opportunities of venue A against predict.fun
    all_opinion_opportunities,  \* opportunities of venue A against Opinion
    matched_pairs,              \* what find_opinion_predict_matches returned
    rpc,                \* position of the refinement: "select", "refine", "done"
    venue_pair,         \* the venue pair whose opportunities are refined
    pair_opportunities, \* the opportunities of that pair, with their books
    top5,               \* indices of the opportunities selected for refinement
    ridx,               \* position of the loop over top5
    raw_orderbook,      \* a book as a venue sent it: bids and asks
    yes_depth,          \* what extract_orderbook_depth returned for it
    orderbook_depth,    \* what fetch_token_orderbook returned for it
    fpc,                \* position of a parallel fetch: "submit", "collect", "returned"
    opinion_markets,    \* the Opinion markets whose token books are fetched
    future_to_token,    \* the submitted fetches, each with what it was submitted for
    future_state,       \* of each fetch: "queued", "running" or "done"
    future_result,      \* of each finished fetch: what future.result() gives
    yielded,            \* the fetches the as_completed loop has gone through
    orderbook_lookup,   \* the lookup fetch_polymarket_orderbooks builds
    prices_map,         \* token id -> depth, as get_opinion_price_lookup collects it
    returned_lookup     \* the lookup get_opinion_price_lookup returned

\* state of a run of analyze_markets and allocate_capital
arb_vars == <<pc, markets, price_lookup, idx, last_arb, opportunities, plan,
              warnings>>

\* state of the slug/title join and of the three-venue match
match_vars == <<mpc, poly_cat_with_markets, opinion_price_lookup,
                predict_price_lookup, all_opportunities,
                all_opinion_opportunities, matched_pairs>>

\* state of the order-book refinement of one venue pair
refine_vars == <<rpc, venue_pair, pair_opportunities, top5, ridx>>

\* state of the extraction of the depth of one book
book_vars == <<raw_orderbook, yes_depth, orderbook_depth>>

\* state of a parallel fetch of order books
fetch_vars == <<fpc, opinion_markets, future_to_token, future_state,
                future_result, yielded, orderbook_lookup, prices_map,
                returned_lookup>>

vars == <<arb_vars, match_vars, refine_vars, book_vars, fetch_vars>>

-----------------------------------------------------------------------------
\* Bounds of the model

\* longest market list of the list scenarios
MaxMarkets == 2

\* prices of the single-pair scenarios are k / TickDen, k in 0 .. MaxTick
TickDen == 4

MaxTick == 5

\* longest list of opportunities of a venue pair handed to the refinement
MaxRefineOpps == 6

\* most levels on a side of an order book
MaxLevels == 3

\* most token ids handed to fetch_polymarket_orderbooks
MaxTokens == 3

\* most Opinion markets handed to get_opinion_price_lookup
MaxOpinionMarkets == 1

-----------------------------------------------------------------------------
\* Exact arithmetic standing for Python float arithmetic

Abs(x) == IF x < 0 THEN -x ELSE x

RECURSIVE GCD(_, _)
GCD(a, b) == IF b = 0 THEN a ELSE GCD(b, a % b)

\* the rational n / d (d # 0) in lowest terms
Frac(n, d) ==
    LET g == GCD(Abs(n), Abs(d))
        s == IF d < 0 THEN -1 ELSE 1
    IN  [n |-> (s * n) \div g, d |-> (s * d) \div g]

Num(k) == [n |-> k, d |-> 1]

Zero == Num(0)

One == Num(1)

\* sums and products cancel common factors before multiplying, which keeps
\* the intermediate integers small
Add(x, y) ==
    LET g == GCD(x.d, y.d)
    IN  Frac(x.n * (y.d \div g) + y.n * (x.d \div g), (x.d \div g) * y.d)

Sub(x, y) == Add(x, [n |-> -y.n, d |-> y.d])

Mul(x, y) ==
    LET g1 == GCD(Abs(x.n), y.d)
        g2 == GCD(Abs(y.n), x.d)
    IN  Frac((x.n \div g1) * (y.n \div g2), (x.d \div g2) * (y.d \div g1))

\* x / y for y # 0; Python raises ZeroDivisionError for y = 0, which every
\* caller below tests for before dividing
Div(x, y) ==
    IF y.n < 0 THEN Mul(x, [n |-> -y.d, d |-> -y.n])
    ELSE Mul(x, [n |-> y.d, d |-> y.n])

Lt(x, y) ==
    LET g == GCD(x.d, y.d)
    IN  x.n * (y.d \div g) < y.n * (x.d \div g)

Le(x, y) ==
    LET g == GCD(x.d, y.d)
    IN  x.n * (y.d \div g) <= y.n * (x.d \div g)

Gt(x, y) == Lt(y, x)

Ge(x, y) == Le(y, x)

RECURSIVE SumSeq(_)
SumSeq(s) == IF s = <<>> THEN Zero ELSE Add(Head(s), SumSeq(Tail(s)))

\* Python's None
None == [none |-> TRUE]

-----------------------------------------------------------------------------
\* src/src/main.py

STRATEGY1 == "Yes on App1, No on App2"

STRATEGY2 == "No on App1, Yes on App2"

profit_of(cost) == Sub(One, cost)

roi_of(cost) ==
    IF Gt(cost, Zero) THEN Mul(Div(profit_of(cost), cost), Num(100)) ELSE Zero

\* best_strategy_of with ">= 0" for "> 0" in the second branch
best_strategy_break_even(cost_strategy1, cost_strategy2) ==
    LET profit_strategy1 == profit_of(cost_strategy1)
        profit_strategy2 == profit_of(cost_strategy2)
    IN  IF Gt(profit_strategy1, profit_strategy2) /\ Gt(profit_strategy1, Zero)
        THEN [type |-> STRATEGY1, cost |-> cost_strategy1,
              profit |-> profit_strategy1, roi_percent |-> roi_of(cost_strategy1)]
        ELSE IF Ge(profit_strategy2, Zero)
        THEN [type |-> STRATEGY2, cost |-> cost_strategy2,
              profit |-> profit_strategy2, roi_percent |-> roi_of(cost_strategy2)]
        ELSE None

\* best_strategy_of without "and profit_strategy1 > 0" in the first branch
best_strategy_unchecked_first(cost_strategy1, cost_strategy2) ==
    LET profit_strategy1 == profit_of(cost_strategy1)
        profit_strategy2 == profit_of(cost_strategy2)
    IN  IF Gt(profit_strategy1, profit_strategy2)
        THEN [type |-> STRATEGY1, cost |-> cost_strategy1,
              profit |-> profit_strategy1, roi_percent |-> roi_of(cost_strategy1)]
        ELSE IF Gt(profit_strategy2, Zero)
        THEN [type |-> STRATEGY2, cost |-> cost_strategy2,
              profit |-> profit_strategy2, roi_percent |-> roi_of(cost_strategy2)]
        ELSE None

\* best_strategy_of with ">=" for ">" between the two profits
best_strategy_first_on_tie(cost_strategy1, cost_strategy2) ==
    LET profit_strategy1 == profit_of(cost_strategy1)
        profit_strategy2 == profit_of(cost_strategy2)
    IN  IF Ge(profit_strategy1, profit_strategy2) /\ Gt(profit_strategy1, Zero)
        THEN [type |-> STRATEGY1, cost |-> cost_strategy1,
              profit |-> profit_strategy1, roi_percent |-> roi_of(cost_strategy1)]
        ELSE IF Gt(profit_strategy2, Zero)
        THEN [type |-> STRATEGY2, cost |-> cost_strategy2,
              profit |-> profit_strategy2, roi_percent |-> roi_of(cost_strategy2)]
        ELSE None

\* best_strategy_of without the comparison of the two profits
best_strategy_first_profitable(cost_strategy1, cost_strategy2) ==
    LET profit_strategy1 == profit_of(cost_strategy1)
        profit_strategy2 == profit_of(cost_strategy2)
    IN  IF Gt(profit_strategy1, Zero)
        THEN [type |-> STRATEGY1, cost |-> cost_strategy1,
              profit |-> profit_strategy1, roi_percent |-> roi_of(cost_strategy1)]
        ELSE IF Gt(profit_strategy2, Zero)
        THEN [type |-> STRATEGY2, cost |-> cost_strategy2,
              profit |-> profit_strategy2, roi_percent |-> roi_of(cost_strategy2)]
        ELSE None

best_strategy_of(cost_strategy1, cost_strategy2) ==
    LET profit_strategy1 == profit_of(cost_strategy1)
        profit_strategy2 == profit_of(cost_strategy2)
    IN  IF Gt(profit_strategy1, profit_strategy2) /\ Gt(profit_strategy1, Zero)
        THEN [type |-> STRATEGY1, cost |-> cost_strategy1,
              profit |-> profit_strategy1, roi_percent |-> roi_of(cost_strategy1)]
        ELSE IF Gt(profit_strategy2, Zero)
        THEN [type |-> STRATEGY2, cost |-> cost_strategy2,
              profit |-> profit_strategy2, roi_percent |-> roi_of(cost_strategy2)]
        ELSE None

calculate_arbitrage(market1_prices, market2_prices) ==
    IF Len(market1_prices) < 2 THEN None
    ELSE
    LET yes_price_m1 == market1_prices[1]
        no_price_m1 == market1_prices[2]
        yes_price_m2 == market2_prices.yes_price
        no_price_m2 == market2_prices.no_price
        cost_strategy1 == Add(yes_price_m1, no_price_m2)
        cost_strategy2 == Add(no_price_m1, yes_price_m2)
    IN  [arbitrage_exists |-> Gt(profit_of(cost_strategy1), Zero)
                              \/ Gt(profit_of(cost_strategy2), Zero),
         market1_yes |-> yes_price_m1,
         market1_no |-> no_price_m1,
         market2_yes |-> yes_price_m2,
         market2_no |-> no_price_m2,
         best_strategy |-> best_strategy_of(cost_strategy1, cost_strategy2)]

\* condition-id mode (match_by_slug = False)
get_price_from_lookup(market, lookup_table) ==
    LET condition_id == market.conditionId
    IN  IF condition_id = None THEN None
        ELSE IF condition_id \notin DOMAIN lookup_table THEN None
        ELSE LET lookup == lookup_table[condition_id]
             IN  IF lookup.yes_price = None \/ lookup.no_price = None THEN None
                 ELSE [yes_price |-> lookup.yes_price, no_price |-> lookup.no_price]

\* one iteration of the loop of analyze_markets
AnalyzeMarket ==
    /\ pc = "analyze"
    /\ idx <= Len(markets)
    /\ LET market == markets[idx]
           market2_data == get_price_from_lookup(market, price_lookup)
           arbitrage_result ==
               IF market2_data = None THEN None
               ELSE calculate_arbitrage(market.outcomePrices, market2_data)
       IN  IF market.closed \/ market.outcomePrices = <<>> \/ market2_data = None
           THEN /\ last_arb' = None
                /\ UNCHANGED opportunities
           ELSE /\ last_arb' = arbitrage_result
                /\ opportunities' =
                       IF arbitrage_result # None /\ arbitrage_result.arbitrage_exists
                       THEN Append(opportunities,
                                   [market |-> idx,
                                    market2_data |-> market2_data,
                                    arbitrage |-> arbitrage_result])
                       ELSE opportunities
    /\ idx' = idx + 1
    /\ UNCHANGED <<pc, markets, price_lookup, plan, warnings>>
    /\ UNCHANGED <<match_vars, refine_vars, book_vars, fetch_vars>>

\* the loop is exhausted and analyze_markets returns the list
AnalyzeReturn ==
    /\ pc = "analyze"
    /\ idx > Len(markets)
    /\ pc' = "analyzed"
    /\ UNCHANGED <<markets, price_lookup, idx, last_arb, opportunities, plan,
                   warnings>>
    /\ UNCHANGED <<match_vars, refine_vars, book_vars, fetch_vars>>

-----------------------------------------------------------------------------
\* src/src/capital_allocator.py

PLATFORM_MIN_BET == 5

EQUAL == "equal"

ROI_WEIGHTED == "roi_weighted"

KELLY == "kelly"

AllocationStrategy == {EQUAL, ROI_WEIGHTED, KELLY}

MinBet == Num(PLATFORM_MIN_BET)

\* passes_prefilter with ">" for ">="
passes_prefilter_strict(allocated) == Gt(allocated, Mul(MinBet, Num(2)))

\* the pre-filter of the three policies: allocated >= PLATFORM_MIN_BET * 2
passes_prefilter(allocated) == Ge(allocated, Mul(MinBet, Num(2)))

\* keep_allocations handing the capital of the filtered-out opportunities to
\* the first one kept
keep_allocations_redistributed(opps, share) ==
    LET F[i \in 0 .. Len(opps)] ==
            IF i = 0 THEN <<>>
            ELSE IF passes_prefilter(share[i])
                 THEN Append(F[i - 1], [opportunity |-> i, allocated_capital |-> share[i]])
                 ELSE F[i - 1]
        kept == F[Len(opps)]
        left == Sub(SumSeq(share),
                    SumSeq([k \in 1 .. Len(kept) |-> kept[k].allocated_capital]))
    IN  IF kept = <<>> THEN kept
        ELSE [kept EXCEPT ![1].allocated_capital = Add(@, left)]

\* the allocations a policy returns: one per opportunity whose share passes
\* the pre-filter, in input order; 'opportunity' refers to the list element
keep_allocations(opps, share) ==
    LET F[i \in 0 .. Len(opps)] ==
            IF i = 0 THEN <<>>
            ELSE IF passes_prefilter(share[i])
                 THEN Append(F[i - 1], [opportunity |-> i, allocated_capital |-> share[i]])
                 ELSE F[i - 1]
    IN  F[Len(opps)]

\* equal_share proposing the whole capital for every opportunity
equal_share_whole(opps, total_capital) ==
    [i \in 1 .. Len(opps) |-> total_capital]

equal_share(opps, total_capital) ==
    [i \in 1 .. Len(opps) |-> Div(total_capital, Num(Len(opps)))]

equal_weight_allocation(opps, total_capital) ==
    IF opps = <<>> THEN <<>>
    ELSE keep_allocations(opps, equal_share(opps, total_capital))

roi_value(opp) ==
    LET best == opp.arbitrage.best_strategy
    IN  IF best # None THEN best.roi_percent ELSE Zero

roi_values(opps) == [i \in 1 .. Len(opps) |-> roi_value(opps[i])]

\* roi_share giving every opportunity the same share
roi_share_uniform(opps, total_capital) == equal_share(opps, total_capital)

roi_share(opps, total_capital) ==
    LET total_roi == SumSeq(roi_values(opps))
    IN  [i \in 1 .. Len(opps) |->
            Mul(Div(roi_values(opps)[i], total_roi), total_capital)]

\* roi_weighted_allocation returning no allocation when the ROI sum is zero
roi_weighted_no_fallback(opps, total_capital) ==
    IF opps = <<>> THEN <<>>
    ELSE IF SumSeq(roi_values(opps)) = Zero
         THEN <<>>
         ELSE keep_allocations(opps, roi_share(opps, total_capital))

roi_weighted_allocation(opps, total_capital) ==
    IF opps = <<>> THEN <<>>
    ELSE IF SumSeq(roi_values(opps)) = Zero
         THEN equal_weight_allocation(opps, total_capital)
         ELSE keep_allocations(opps, roi_share(opps, total_capital))

KELLY_CAP == Frac(1, 4)

\* odds = 1.0 / cost - 1.0, for the opportunities kelly_allocation computes it for
kelly_odds(opp) == Sub(Div(One, opp.arbitrage.best_strategy.cost), One)

has_kelly_odds(opp) ==
    LET best == opp.arbitrage.best_strategy
    IN  best # None /\ Gt(best.cost, Zero)

\* (win_prob * odds - (1 - win_prob)) / odds divides by zero when odds = 0
kelly_raises(opps) ==
    \E i \in 1 .. Len(opps) : has_kelly_odds(opps[i]) /\ kelly_odds(opps[i]) = Zero

RMax(x, y) == IF Ge(x, y) THEN x ELSE y

RMin(x, y) == IF Le(x, y) THEN x ELSE y

\* kelly_fraction taking the profit of the strategy for the raw fraction
kelly_fraction_of_profit(opp) ==
    IF has_kelly_odds(opp)
    THEN RMax(Zero, RMin(opp.arbitrage.best_strategy.profit, KELLY_CAP))
    ELSE Zero

kelly_fraction(opp) ==
    IF has_kelly_odds(opp)
    THEN LET win_prob == One
             odds == kelly_odds(opp)
             raw == Div(Sub(Mul(win_prob, odds), Sub(One, win_prob)), odds)
         IN  RMax(Zero, RMin(raw, KELLY_CAP))
    ELSE Zero

kelly_fractions(opps) == [i \in 1 .. Len(opps) |-> kelly_fraction(opps[i])]

kelly_share(opps, total_capital) ==
    LET total_fraction == SumSeq(kelly_fractions(opps))
    IN  [i \in 1 .. Len(opps) |->
            Mul(Div(kelly_fractions(opps)[i], total_fraction), total_capital)]

kelly_allocation(opps, total_capital) ==
    IF opps = <<>> THEN <<>>
    ELSE IF SumSeq(kelly_fractions(opps)) = Zero
         THEN equal_weight_allocation(opps, total_capital)
         ELSE keep_allocations(opps, kelly_share(opps, total_capital))

leg_prices(arb) ==
    IF arb.best_strategy.type = STRATEGY1
    THEN [price_yes |-> arb.market1_yes, price_no |-> arb.market2_no]
    ELSE [price_yes |-> arb.market2_yes, price_no |-> arb.market1_no]

\* bet_too_small testing the YES leg only
bet_too_small_yes_only(bet_yes, bet_no) == Lt(bet_yes, MinBet)

bet_too_small(bet_yes, bet_no) == Lt(bet_yes, MinBet) \/ Lt(bet_no, MinBet)

\* leg_bet without the division by the sum of the two prices
leg_bet_of_price(allocated_capital, price, total_price) ==
    Mul(allocated_capital, price)

\* allocated_capital * (price / total_price)
leg_bet(allocated_capital, price, total_price) ==
    Mul(allocated_capital, Div(price, total_price))

calculate_bet_amounts(opp, allocated_capital) ==
    LET arb == opp.arbitrage
        best == arb.best_strategy
    IN  IF best = None THEN None
        ELSE
        LET price_yes == leg_prices(arb).price_yes
            price_no == leg_prices(arb).price_no
            total_price == Add(price_yes, price_no)
        IN  IF total_price = Zero THEN None
            ELSE
            LET bet_yes == leg_bet(allocated_capital, price_no, total_price)
                bet_no == leg_bet(allocated_capital, price_yes, total_price)
                expected_profit ==
                    Sub(allocated_capital,
                        Add(Mul(bet_yes, price_yes), Mul(bet_no, price_no)))
            IN  IF bet_too_small(bet_yes, bet_no) THEN None
                ELSE [allocated_capital |-> allocated_capital,
                      bet_yes |-> bet_yes,
                      bet_no |-> bet_no,
                      price_yes |-> price_yes,
                      price_no |-> price_no,
                      expected_profit |-> expected_profit,
                      roi_percent |->
                          IF Gt(allocated_capital, Zero)
                          THEN Mul(Div(expected_profit, allocated_capital), Num(100))
                          ELSE Zero]

policy_allocations(opps, total_capital, strategy) ==
    IF strategy = EQUAL THEN equal_weight_allocation(opps, total_capital)
    ELSE IF strategy = ROI_WEIGHTED THEN roi_weighted_allocation(opps, total_capital)
    ELSE IF strategy = KELLY THEN kelly_allocation(opps, total_capital)
    ELSE equal_weight_allocation(opps, total_capital)

\* add_deployed adding the expected profit (line 170) for the capital
add_deployed_profit(total_deployed, bet_details) ==
    Add(total_deployed, bet_details.expected_profit)

\* total_deployed += bet_details['allocated_capital']
add_deployed(total_deployed, bet_details) ==
    Add(total_deployed, bet_details.allocated_capital)

\* the loop of allocate_capital after allocations[1 .. k] have been visited
validated(opps, allocations) ==
    LET F[k \in 0 .. Len(allocations)] ==
            IF k = 0
            THEN [validated_allocations |-> <<>>, total_deployed |-> Zero,
                  total_expected_profit |-> Zero]
            ELSE LET allocation == allocations[k]
                     bet_details == calculate_bet_amounts(opps[allocation.opportunity],
                                                          allocation.allocated_capital)
                 IN  IF bet_details # None
                     THEN [validated_allocations |->
                               Append(F[k - 1].validated_allocations,
                                      [opportunity |-> allocation.opportunity,
                                       allocated_capital |-> allocation.allocated_capital,
                                       bet_details |-> bet_details]),
                           total_deployed |->
                               add_deployed(F[k - 1].total_deployed, bet_details),
                           total_expected_profit |->
                               Add(F[k - 1].total_expected_profit,
                                   bet_details.expected_profit)]
                     ELSE F[k - 1]
    IN  F[Len(allocations)]

allocate_capital(opps, total_capital, strategy) ==
    LET allocations == policy_allocations(opps, total_capital, strategy)
        v == validated(opps, allocations)
    IN  [allocations |-> v.validated_allocations,
         total_capital |-> total_capital,
         total_deployed |-> v.total_deployed,
         total_unallocated |-> Sub(total_capital, v.total_deployed),
         total_expected_profit |-> v.total_expected_profit,
         overall_roi_percent |->
             IF Gt(v.total_deployed, Zero)
             THEN Mul(Div(v.total_expected_profit, v.total_deployed), Num(100))
             ELSE Zero,
         num_opportunities |-> Len(v.validated_allocations),
         strategy |-> strategy]

OVER_HALF == "More than 50% of capital could not be allocated"

NO_OPPORTUNITIES == "No opportunities could be allocated with the given capital"

BELOW_MINIMUM == "Bet amount below minimum for market"

\* the first test of validate_allocations with ">=" for ">"
over_half_or_equal(allocation_result) ==
    Ge(allocation_result.total_unallocated,
       Mul(allocation_result.total_capital, Frac(1, 2)))

\* total_unallocated > total_capital * 0.5
over_half(allocation_result) ==
    Gt(allocation_result.total_unallocated,
       Mul(allocation_result.total_capital, Frac(1, 2)))

\* the test of the loop with "<=" for "<"
below_or_at_minimum(bet_details) ==
    Le(bet_details.bet_yes, MinBet) \/ Le(bet_details.bet_no, MinBet)

\* the test of the loop of validate_allocations on one allocation
below_minimum(bet_details) ==
    Lt(bet_details.bet_yes, MinBet) \/ Lt(bet_details.bet_no, MinBet)

\* the warnings of the loop over allocations[1 .. k]
RECURSIVE minimum_warnings(_, _)
minimum_warnings(allocations, k) ==
    IF k = 0 THEN <<>>
    ELSE minimum_warnings(allocations, k - 1)
         \o (IF below_minimum(allocations[k].bet_details)
             THEN <<[text |-> BELOW_MINIMUM,
                     opportunity |-> allocations[k].opportunity]>>
             ELSE <<>>)

\* the list of warnings; the texts stand for the formatted messages
validate_allocations(allocation_result) ==
    (IF over_half(allocation_result)
     THEN <<[text |-> OVER_HALF, amount |-> allocation_result.total_unallocated]>>
     ELSE <<>>)
    \o (IF allocation_result.num_opportunities = 0
        THEN <<[text |-> NO_OPPORTUNITIES]>>
        ELSE <<>>)
    \o minimum_warnings(allocation_result.allocations,
                        Len(allocation_result.allocations))

\* total_capital values a caller passes
Capitals == {Num(0), Num(20), Num(30), Num(100)}

\* a call of allocate_capital on the list analyze_markets returned
AllocateCapital(total_capital, strategy) ==
    /\ pc = "analyzed"
    /\ IF strategy = KELLY /\ kelly_raises(opportunities)
       THEN /\ pc' = "raised"
            /\ UNCHANGED plan
       ELSE /\ pc' = "allocated"
            /\ plan' = allocate_capital(opportunities, total_capital, strategy)
    /\ UNCHANGED <<markets, price_lookup, idx, last_arb, opportunities,
                   warnings>>
    /\ UNCHANGED <<match_vars, refine_vars, book_vars, fetch_vars>>

\* the third message slices allocation['opportunity']['market']['question'],
\* which polymarket.py:34 fills with market.get('question'): None there makes
\* the slice raise, so a flagged allocation is a call that can raise
message_can_raise(allocation_result) ==
    \E k \in 1 .. Len(allocation_result.allocations) :
        below_minimum(allocation_result.allocations[k].bet_details)

\* a call of validate_allocations on the plan allocate_capital returned
ValidateAllocations ==
    /\ pc = "allocated"
    /\ \/ /\ pc' = "validated"
          /\ warnings' = validate_allocations(plan)
       \/ /\ message_can_raise(plan)
          /\ pc' = "validate_raised"
          /\ UNCHANGED warnings
    /\ UNCHANGED <<markets, price_lookup, idx, last_arb, opportunities, plan>>
    /\ UNCHANGED <<match_vars, refine_vars, book_vars, fetch_vars>>

-----------------------------------------------------------------------------
\* Inputs

ConditionId(i) == [id |-> i]

\* single-pair scenarios: one market against one lookup entry, each price on
\* the grid 0 .. MaxTick/TickDen (prices outside (0, 1] are the
\* malformed quotes the venues can deliver)
GridPrices == {Frac(k, TickDen) : k \in 0 .. MaxTick}

GridOutcomePrices ==
    {<<>>} \cup {<<y>> : y \in GridPrices}
           \cup {<<y, n>> : y \in GridPrices, n \in GridPrices}

GridEntries ==
    {[yes_price |-> y, no_price |-> n] : y \in GridPrices, n \in GridPrices}
    \cup {[yes_price |-> None, no_price |-> Frac(1, 2)],
          [yes_price |-> Frac(1, 2), no_price |-> None]}

InitPair ==
    /\ \E closed \in BOOLEAN, prices \in GridOutcomePrices, hasId \in BOOLEAN :
           markets = <<[closed |-> closed, outcomePrices |-> prices,
                        conditionId |-> IF hasId THEN ConditionId(1) ELSE None]>>
    /\ \/ price_lookup = <<>>
       \/ \E e \in GridEntries : price_lookup = [c \in {ConditionId(1)} |-> e]

\* list scenarios: up to MaxMarkets open markets, each matched in the lookup
ListOutcomePrices ==
    {<<Frac(2, 5), Frac(2, 5)>>, <<Frac(1, 5), Frac(3, 5)>>, <<Zero, One>>,
     <<Frac(1, 50), Frac(3, 5)>>}

ListEntries ==
    {[yes_price |-> Frac(2, 5), no_price |-> Frac(2, 5)],
     [yes_price |-> Frac(3, 5), no_price |-> Frac(1, 5)],
     [yes_price |-> One, no_price |-> Zero],
     [yes_price |-> Frac(3, 5), no_price |-> Frac(3, 5)]}

InitList ==
    \E n \in 1 .. MaxMarkets :
        \E ps \in [1 .. n -> ListOutcomePrices], es \in [1 .. n -> ListEntries] :
            /\ markets = [i \in 1 .. n |->
                              [closed |-> FALSE, outcomePrices |-> ps[i],
                               conditionId |-> ConditionId(i)]]
            /\ price_lookup = [c \in {ConditionId(i) : i \in 1 .. n} |->
                                   es[CHOOSE i \in 1 .. n : ConditionId(i) = c]]

\* no three-venue run is in progress
MatchIdle ==
    /\ mpc = "idle"
    /\ poly_cat_with_markets = <<>>
    /\ opinion_price_lookup = <<>>
    /\ predict_price_lookup = <<>>
    /\ all_opportunities = <<>>
    /\ all_opinion_opportunities = <<>>
    /\ matched_pairs = <<>>

\* no refinement is in progress
RefineIdle ==
    /\ rpc = "idle"
    /\ venue_pair = "idle"
    /\ pair_opportunities = <<>>
    /\ top5 = <<>>
    /\ ridx = 1

\* no parallel fetch is in progress
FetchIdle ==
    /\ fpc = "idle"
    /\ opinion_markets = <<>>
    /\ future_to_token = <<>>
    /\ future_state = <<>>
    /\ future_result = <<>>
    /\ yielded = {}
    /\ orderbook_lookup = <<>>
    /\ prices_map = <<>>
    /\ returned_lookup = <<>>

\* no book is being examined
BookIdle ==
    /\ raw_orderbook = [bids |-> <<>>, asks |-> <<>>]
    /\ yes_depth = None
    /\ orderbook_depth = None

Init ==
    /\ pc = "analyze"
    /\ idx = 1
    /\ last_arb = None
    /\ opportunities = <<>>
    /\ plan = None
    /\ warnings = <<>>
    /\ FetchIdle
    /\ (InitPair \/ InitList)
    /\ MatchIdle
    /\ RefineIdle
    /\ BookIdle

Next ==
    \/ AnalyzeMarket
    \/ AnalyzeReturn
    \/ \E total_capital \in Capitals, strategy \in AllocationStrategy :
           AllocateCapital(total_capital, strategy)
    \/ ValidateAllocations

Spec == Init /\ [][Next]_vars

-----------------------------------------------------------------------------
\* src/src/main.py: the slug/title join and the three-venue match
\*
\* Strings are sequences of one-character strings, so that building a key and
\* splitting it again are computed character by character.  An optional value
\* that is present is a record (a title is [text |-> <<...>>]).

\* the separator of f"{category_slug}||{market_title}"
SEP == <<"|", "|">>

\* str(x) inside an f-string: None is rendered as the text None
str_of(title) ==
    IF title = None THEN <<"N", "o", "n", "e">> ELSE title.text

\* f"{category_slug}||{market_title}"
slug_title_key(category_slug, market_title) ==
    category_slug \o SEP \o str_of(market_title)

\* index of the first occurrence of || in key at or after i, 0 when none
RECURSIVE find_sep(_, _)
find_sep(key, i) ==
    IF i + 1 > Len(key) THEN 0
    ELSE IF key[i] = "|" /\ key[i + 1] = "|" THEN i
    ELSE find_sep(key, i + 1)

\* key.split('||', 1)
split_key(key) ==
    LET i == find_sep(key, 1)
    IN  IF i = 0 THEN <<key>>
        ELSE <<SubSeq(key, 1, i - 1), SubSeq(key, i + 2, Len(key))>>

\* a scan that fails on a lookup without entries
scan_raises_on_empty(lookup_table) ==
    lookup_table = <<>>

\* the unpacking stored_slug, stored_title = key.split('||', 1) raises
\* ValueError on a key without ||
scan_raises(lookup_table) ==
    \E key \in DOMAIN lookup_table : Len(split_key(key)) # 2

\* keys the scan of the lookup accepts for a market: the stored title only
fuzzy_hits_title_only(lookup_table, category_slug, market_title) ==
    {key \in DOMAIN lookup_table :
        /\ market_title # None
        /\ split_key(key)[2] = market_title.text}

\* keys the scan of the lookup accepts for a market
fuzzy_hits(lookup_table, category_slug, market_title) ==
    {key \in DOMAIN lookup_table :
        /\ split_key(key)[1] = category_slug
        /\ market_title # None
        /\ split_key(key)[2] = market_title.text}

\* the scan over price_lookup.items() that follows a failed exact lookup
fuzzy_lookup(lookup_table, category_slug, market_title) ==
    LET hits == fuzzy_hits(lookup_table, category_slug, market_title)
    IN  IF hits = {} THEN None
        ELSE lookup_table[CHOOSE key \in hits : TRUE]

\* slug/title mode (match_by_slug = True); the market carries category_slug
get_price_from_lookup_by_slug(market, lookup_table) ==
    LET market_key == slug_title_key(market.category_slug, market.title)
        exact == IF market_key \in DOMAIN lookup_table
                 THEN lookup_table[market_key] ELSE None
        lookup == IF exact = None
                  THEN fuzzy_lookup(lookup_table, market.category_slug,
                                    market.title)
                  ELSE exact
    IN  IF lookup = None THEN None
        ELSE IF lookup.yes_price = None \/ lookup.no_price = None THEN None
        ELSE [market_id |-> lookup.market_id,
              yes_price |-> lookup.yes_price,
              no_price |-> lookup.no_price]

\* analyze_markets(markets, price_lookup, match_by_slug) as a function of its
\* arguments; an opportunity carries the market itself
RECURSIVE analyze_markets(_, _, _)
analyze_markets(market_list, lookup_table, match_by_slug) ==
    IF market_list = <<>> THEN <<>>
    ELSE LET market == Head(market_list)
             rest == analyze_markets(Tail(market_list), lookup_table,
                                     match_by_slug)
             market2_data ==
                 IF match_by_slug
                 THEN get_price_from_lookup_by_slug(market, lookup_table)
                 ELSE get_price_from_lookup(market, lookup_table)
         IN  IF market.closed \/ market.outcomePrices = <<>>
                \/ market2_data = None
             THEN rest
             ELSE LET arbitrage_result ==
                          calculate_arbitrage(market.outcomePrices, market2_data)
                  IN  IF arbitrage_result # None
                         /\ arbitrage_result.arbitrage_exists
                      THEN <<[market |-> market,
                              market2_data |-> market2_data,
                              arbitrage |-> arbitrage_result]>> \o rest
                      ELSE rest

\* for market in markets: market['category_slug'] = category_slug
with_category_slug(market_list, category_slug) ==
    [i \in 1 .. Len(market_list) |->
        [closed |-> market_list[i].closed,
         outcomePrices |-> market_list[i].outcomePrices,
         conditionId |-> market_list[i].conditionId,
         title |-> market_list[i].title,
         category_slug |-> category_slug]]

\* the loop of main over the categories, venue A against Opinion
RECURSIVE opinion_opportunities_of(_, _)
opinion_opportunities_of(categories, lookup_table) ==
    IF categories = <<>> THEN <<>>
    ELSE analyze_markets(with_category_slug(Head(categories).markets,
                                            Head(categories).slug),
                         lookup_table, TRUE)
         \o opinion_opportunities_of(Tail(categories), lookup_table)

\* one iteration of the inner loop of find_opinion_predict_matches that
\* leaves out the test of the closed flag
match_of_closed_too(category_slug, market, opinion_lookup, predict_lookup) ==
    LET condition_id == market.conditionId
        market_title == market.title
        opinion_key == slug_title_key(category_slug, market_title)
    IN  IF condition_id = None \/ market_title = None
           \/ market_title.text = <<>> THEN None
        ELSE IF condition_id \notin DOMAIN predict_lookup THEN None
        ELSE IF opinion_key \notin DOMAIN opinion_lookup THEN None
        ELSE [opinion |-> opinion_lookup[opinion_key],
              predict |-> predict_lookup[condition_id],
              polymarket_slug |-> category_slug,
              market_title |-> market_title]

\* one iteration of the inner loop of find_opinion_predict_matches: the
\* match of a venue-A market, or None when the loop continues
match_of(category_slug, market, opinion_lookup, predict_lookup) ==
    LET condition_id == market.conditionId
        market_title == market.title
        opinion_key == slug_title_key(category_slug, market_title)
    IN  IF market.closed THEN None
        ELSE IF condition_id = None \/ market_title = None
                \/ market_title.text = <<>> THEN None
        ELSE IF condition_id \notin DOMAIN predict_lookup THEN None
        ELSE IF opinion_key \notin DOMAIN opinion_lookup THEN None
        ELSE [opinion |-> opinion_lookup[opinion_key],
              predict |-> predict_lookup[condition_id],
              polymarket_slug |-> category_slug,
              market_title |-> market_title]

\* the inner loop over the markets of one category
RECURSIVE category_matches(_, _, _, _)
category_matches(category_slug, market_list, opinion_lookup, predict_lookup) ==
    IF market_list = <<>> THEN <<>>
    ELSE LET m == match_of(category_slug, Head(market_list),
                           opinion_lookup, predict_lookup)
             rest == category_matches(category_slug, Tail(market_list),
                                      opinion_lookup, predict_lookup)
         IN  IF m = None THEN rest ELSE <<m>> \o rest

RECURSIVE find_opinion_predict_matches(_, _, _)
find_opinion_predict_matches(opinion_lookup, predict_lookup, polymarket_markets) ==
    IF polymarket_markets = <<>> THEN <<>>
    ELSE category_matches(Head(polymarket_markets).slug,
                          Head(polymarket_markets).markets,
                          opinion_lookup, predict_lookup)
         \o find_opinion_predict_matches(opinion_lookup, predict_lookup,
                                         Tail(polymarket_markets))

\* the loop of main over the categories, venue A against predict.fun
RECURSIVE predict_opportunities_of(_, _)
predict_opportunities_of(categories, lookup_table) ==
    IF categories = <<>> THEN <<>>
    ELSE analyze_markets(Head(categories).markets, lookup_table, FALSE)
         \o predict_opportunities_of(Tail(categories), lookup_table)

\* main, venue A against predict.fun: every category is analysed by
\* conditionId
AnalyzePredict ==
    /\ mpc = "predict"
    /\ mpc' = "opinion"
    /\ all_opportunities' =
           predict_opportunities_of(poly_cat_with_markets, predict_price_lookup)
    /\ UNCHANGED <<poly_cat_with_markets, opinion_price_lookup,
                   predict_price_lookup, all_opinion_opportunities,
                   matched_pairs>>
    /\ UNCHANGED <<arb_vars, refine_vars, book_vars, fetch_vars>>

\* main, venue A against Opinion: every category is analysed in slug mode
AnalyzeOpinion ==
    /\ mpc = "opinion"
    /\ IF scan_raises(opinion_price_lookup)
       THEN /\ mpc' = "raised"
            /\ UNCHANGED all_opinion_opportunities
       ELSE /\ mpc' = "match"
            /\ all_opinion_opportunities' =
                   opinion_opportunities_of(poly_cat_with_markets,
                                            opinion_price_lookup)
    /\ UNCHANGED <<poly_cat_with_markets, opinion_price_lookup,
                   predict_price_lookup, all_opportunities, matched_pairs>>
    /\ UNCHANGED <<arb_vars, refine_vars, book_vars, fetch_vars>>

\* main, Opinion against predict.fun: the call of find_opinion_predict_matches
FindMatches ==
    /\ mpc = "match"
    /\ mpc' = "done"
    /\ matched_pairs' =
           find_opinion_predict_matches(opinion_price_lookup,
                                        predict_price_lookup,
                                        poly_cat_with_markets)
    /\ UNCHANGED <<poly_cat_with_markets, opinion_price_lookup,
                   predict_price_lookup, all_opportunities,
                   all_opinion_opportunities>>
    /\ UNCHANGED <<arb_vars, refine_vars, book_vars, fetch_vars>>

\* Inputs of the three-venue run

\* category slugs of venue A; the second ends in the separator's character
Slugs == <<<<"a">>, <<"a", "|">>>>

Title(text) == [text |-> text]

\* groupItemTitle of a venue-A market: absent, or a text
Titles == {None, Title(<<"b">>), Title(<<"|", "b">>)}

\* the venue-A markets of a run: open or closed, with or without conditionId
\* and title
PolyMarkets ==
    {[closed |-> FALSE, outcomePrices |-> <<Frac(2, 5), Frac(2, 5)>>,
      conditionId |-> ConditionId(i), title |-> t] :
         i \in 1 .. 2, t \in Titles}
    \cup {[closed |-> TRUE, outcomePrices |-> <<Frac(2, 5), Frac(2, 5)>>,
           conditionId |-> ConditionId(1), title |-> Title(<<"b">>)],
          [closed |-> FALSE, outcomePrices |-> <<Frac(2, 5), Frac(2, 5)>>,
           conditionId |-> None, title |-> Title(<<"b">>)]}

\* extract_market_info: one category per slug, in order, kept only when it
\* has markets; slug_of[i] is the category of the i-th market
categories_of(market_list, slug_of) ==
    LET cat(k) == [slug |-> Slugs[k],
                   markets |-> SelectSeq(
                       [i \in 1 .. Len(market_list) |->
                           [m |-> market_list[i], k |-> slug_of[i]]],
                       LAMBDA x : x.k = k)]
        strip(c) == [slug |-> c.slug,
                     markets |-> [i \in 1 .. Len(c.markets) |-> c.markets[i].m]]
        all == [k \in 1 .. Len(Slugs) |-> strip(cat(k))]
    IN  SelectSeq(all, LAMBDA c : c.markets # <<>>)

\* keys get_opinion_price_lookup builds: polymarket_slug||market_title
OpinionKeys ==
    <<slug_title_key(<<"a">>, Title(<<"b">>)),
      slug_title_key(<<"a">>, Title(<<"|", "b">>)),
      slug_title_key(<<"a", "|">>, Title(<<"|", "b">>))>>

\* the entry stored under the k-th key; without a yes_price when not priced
OpinionEntry(k, priced) ==
    [market_id |-> [id |-> 100 + k],
     yes_price |-> IF priced THEN Frac(2, 5) ELSE None,
     no_price |-> Frac(2, 5)]

OpinionLookups ==
    UNION {[keys -> BOOLEAN] : keys \in SUBSET (1 .. Len(OpinionKeys))}

opinion_lookup_of(f) ==
    [key \in {OpinionKeys[k] : k \in DOMAIN f} |->
        LET k == CHOOSE j \in DOMAIN f : OpinionKeys[j] = key
        IN  OpinionEntry(k, f[k])]

\* the entry get_predict_dot_fun_data stores under a conditionId
PredictEntry(i) ==
    [market_id |-> [id |-> 200 + i],
     yes_price |-> Frac(3, 10), no_price |-> Frac(3, 10)]

PredictIds == {{}, {1}, {1, 2}}

InitMatch ==
    /\ mpc = "predict"
    /\ \E n \in 1 .. MaxMarkets :
           \E ms \in [1 .. n -> PolyMarkets], ks \in [1 .. n -> 1 .. Len(Slugs)] :
               poly_cat_with_markets = categories_of(ms, ks)
    /\ \E f \in OpinionLookups : opinion_price_lookup = opinion_lookup_of(f)
    /\ \E ids \in PredictIds :
           predict_price_lookup = [c \in {ConditionId(i) : i \in ids} |->
                                       PredictEntry(c.id)]
    /\ all_opportunities = <<>>
    /\ all_opinion_opportunities = <<>>
    /\ matched_pairs = <<>>
    /\ pc = "idle"
    /\ markets = <<>>
    /\ price_lookup = <<>>
    /\ idx = 1
    /\ last_arb = None
    /\ opportunities = <<>>
    /\ plan = None
    /\ warnings = <<>>
    /\ FetchIdle
    /\ RefineIdle
    /\ BookIdle

NextMatch ==
    \/ AnalyzePredict
    \/ AnalyzeOpinion
    \/ FindMatches

SpecMatch == InitMatch /\ [][NextMatch]_vars

-----------------------------------------------------------------------------
\* src/src/main.py: refinement of the top opportunities with order-book asks

\* number of opportunities of a venue pair that are refined ([:5])
TOP_K == 5

POLYMARKET_PREDICT == "polymarket_predict"

POLYMARKET_OPINION == "polymarket_opinion"

OPINION_PREDICT == "opinion_predict"

VenuePairs == {POLYMARKET_PREDICT, POLYMARKET_OPINION, OPINION_PREDICT}

\* orderbook.get(side_askN_price) of a book that may be None
ask_of(orderbook, side, level) ==
    IF orderbook = None THEN None
    ELSE IF side = "yes"
         THEN (IF level = 1 THEN orderbook.yes_ask1_price
               ELSE orderbook.yes_ask2_price)
         ELSE (IF level = 1 THEN orderbook.no_ask1_price
               ELSE orderbook.no_ask2_price)

flat_of(prices, side) ==
    IF side = "yes" THEN prices.yes_price ELSE prices.no_price

\* a leg that takes its ask only when the other leg's book is present too
leg_price_needs_both(orderbook, other_orderbook, side, level, prices) ==
    IF other_orderbook # None /\ ask_of(orderbook, side, level) # None
    THEN ask_of(orderbook, side, level)
    ELSE flat_of(prices, side)

\* a leg that reads the other level of its book
leg_price_levels_swapped(orderbook, other_orderbook, side, level, prices) ==
    IF ask_of(orderbook, side, 3 - level) # None
    THEN ask_of(orderbook, side, 3 - level)
    ELSE flat_of(prices, side)

\* the price of one leg: the ask of its own book at the level when the book
\* and the level are present, else the flat price
leg_price(orderbook, other_orderbook, side, level, prices) ==
    IF ask_of(orderbook, side, level) # None
    THEN ask_of(orderbook, side, level)
    ELSE flat_of(prices, side)

\* the common body of calculate_orderbook_roi_combined_ask1 and _ask2
calculate_orderbook_roi_combined(level, strategy_type, platform1_orderbook, platform2_orderbook, platform1_prices, platform2_prices) ==
    LET side1 == IF strategy_type = STRATEGY1 THEN "yes" ELSE "no"
        side2 == IF strategy_type = STRATEGY1 THEN "no" ELSE "yes"
        price_p1 == leg_price(platform1_orderbook, platform2_orderbook,
                              side1, level, platform1_prices)
        price_p2 == leg_price(platform2_orderbook, platform1_orderbook,
                              side2, level, platform2_prices)
        cost == Add(price_p1, price_p2)
    IN  IF Le(cost, Zero) THEN None
        ELSE Mul(Div(Sub(One, cost), cost), Num(100))

calculate_orderbook_roi_combined_ask1(strategy_type, platform1_orderbook, platform2_orderbook, platform1_prices, platform2_prices) ==
    calculate_orderbook_roi_combined(1, strategy_type, platform1_orderbook,
                                     platform2_orderbook, platform1_prices,
                                     platform2_prices)

calculate_orderbook_roi_combined_ask2(strategy_type, platform1_orderbook, platform2_orderbook, platform1_prices, platform2_prices) ==
    calculate_orderbook_roi_combined(2, strategy_type, platform1_orderbook,
                                     platform2_orderbook, platform1_prices,
                                     platform2_prices)

\* key of the sort: roi_percent of the best strategy, 0 without one
sort_key(opp) ==
    IF opp.arbitrage.best_strategy = None THEN Zero
    ELSE opp.arbitrage.best_strategy.roi_percent

\* insertion of index i into a list of indices sorted by descending key,
\* after the indices of equal key (sorted is stable, also with reverse=True)
insert_by_roi(sorted, i, opps) ==
    LET before == SelectSeq(sorted,
                            LAMBDA j : Ge(sort_key(opps[j]), sort_key(opps[i])))
        after == SelectSeq(sorted,
                           LAMBDA j : Lt(sort_key(opps[j]), sort_key(opps[i])))
    IN  before \o <<i>> \o after

\* sorted(opps, key=..., reverse=True) as the list of the indices 1 .. n
RECURSIVE sorted_by_roi(_, _)
sorted_by_roi(opps, n) ==
    IF n = 0 THEN <<>>
    ELSE insert_by_roi(sorted_by_roi(opps, n - 1), n, opps)

\* a slice that keeps one opportunity more
first_k_and_one(s) ==
    SubSeq(s, 1, IF Len(s) < TOP_K + 1 THEN Len(s) ELSE TOP_K + 1)

\* s[:5]
first_k(s) ==
    SubSeq(s, 1, IF Len(s) < TOP_K THEN Len(s) ELSE TOP_K)

\* the order books main hands to the two functions for an opportunity of a
\* venue pair: Polymarket's extracted depth, Opinion's stored depth, and no
\* book for predict.fun or for Opinion as the first platform
platform1_orderbook_of(pair, opp) ==
    IF pair = OPINION_PREDICT THEN None ELSE opp.polymarket_depth

platform2_orderbook_of(pair, opp) ==
    IF pair = POLYMARKET_OPINION THEN opp.opinion_depth ELSE None

\* refined storing the first-level figure as the flat ROI as well
refined_over_flat_roi(pair, opp) ==
    LET roi == calculate_orderbook_roi_combined_ask1(
                   opp.arbitrage.best_strategy.type,
                   platform1_orderbook_of(pair, opp),
                   platform2_orderbook_of(pair, opp),
                   [yes_price |-> opp.market.outcomePrices[1],
                    no_price |-> opp.market.outcomePrices[2]],
                   opp.market2_data)
    IN  IF roi = None THEN opp
        ELSE [opp EXCEPT !.orderbook_roi_percent = roi,
                         !.arbitrage.best_strategy.roi_percent = roi]

\* the body of the loop over the top opportunities: both figures of one
\* opportunity, each stored only when it is not None
refined(pair, opp) ==
    LET strategy_type == opp.arbitrage.best_strategy.type
        platform1_orderbook == platform1_orderbook_of(pair, opp)
        platform2_orderbook == platform2_orderbook_of(pair, opp)
        platform1_prices == [yes_price |-> opp.market.outcomePrices[1],
                             no_price |-> opp.market.outcomePrices[2]]
        platform2_prices == opp.market2_data
    IN  [opp EXCEPT
            !.orderbook_roi_percent =
                calculate_orderbook_roi_combined_ask1(
                    strategy_type, platform1_orderbook, platform2_orderbook,
                    platform1_prices, platform2_prices),
            !.orderbook_roi_ask2_percent =
                calculate_orderbook_roi_combined_ask2(
                    strategy_type, platform1_orderbook, platform2_orderbook,
                    platform1_prices, platform2_prices)]

\* top5 = sorted(..., reverse=True)[:5]
SelectTop ==
    /\ rpc = "select"
    /\ rpc' = "refine"
    /\ top5' = first_k(sorted_by_roi(pair_opportunities,
                                     Len(pair_opportunities)))
    /\ ridx' = 1
    /\ UNCHANGED <<venue_pair, pair_opportunities>>
    /\ UNCHANGED <<arb_vars, match_vars, book_vars, fetch_vars>>

\* one iteration of for opp in top5
RefineOpportunity ==
    /\ rpc = "refine"
    /\ ridx <= Len(top5)
    /\ pair_opportunities' =
           [pair_opportunities EXCEPT
               ![top5[ridx]] = refined(venue_pair, pair_opportunities[top5[ridx]])]
    /\ ridx' = ridx + 1
    /\ UNCHANGED <<rpc, venue_pair, top5>>
    /\ UNCHANGED <<arb_vars, match_vars, book_vars, fetch_vars>>

\* the loop over top5 is exhausted
RefineReturn ==
    /\ rpc = "refine"
    /\ ridx > Len(top5)
    /\ rpc' = "done"
    /\ UNCHANGED <<venue_pair, pair_opportunities, top5, ridx>>
    /\ UNCHANGED <<arb_vars, match_vars, book_vars, fetch_vars>>

\* Inputs of the refinement

Depth(y1, y2, n1, n2) ==
    [yes_ask1_price |-> y1, yes_ask2_price |-> y2,
     no_ask1_price |-> n1, no_ask2_price |-> n2]

\* flat quotes of the two venues of an opportunity: the first strategy, the
\* second strategy, and a pair of zero cost
FlatQuotes ==
    {[outcomePrices |-> <<Frac(2, 5), Frac(7, 10)>>,
      market2_data |-> [yes_price |-> Frac(7, 10), no_price |-> Frac(2, 5)]],
     [outcomePrices |-> <<Frac(7, 10), Frac(2, 5)>>,
      market2_data |-> [yes_price |-> Frac(2, 5), no_price |-> Frac(7, 10)]],
     [outcomePrices |-> <<Zero, One>>,
      market2_data |-> [yes_price |-> One, no_price |-> Zero]]}

\* ask prices of a level of a Polymarket book, None when the level is absent
AskLevels == {None, Frac(3, 10), Frac(1, 2)}

\* what extract_orderbook_depth gives for the two tokens of a market (a book
\* with bids only has no ask at any level)
PolymarketDepths ==
    {None} \cup {Depth(y1, y2, n1, n2) :
                    y1 \in AskLevels, y2 \in AskLevels,
                    n1 \in AskLevels, n2 \in AskLevels}

\* second level of an Opinion book above its first level: absent, equal, higher
Ask2Steps == {None, Zero, Frac(1, 10)}

ask2_above(ask1, step) == IF step = None THEN None ELSE Add(ask1, step)

\* the depth get_opinion_price_lookup stores: the flat prices are the first
\* asks, and the books are sorted
opinion_depth_of(market2_data, ystep, nstep) ==
    Depth(market2_data.yes_price, ask2_above(market2_data.yes_price, ystep),
          market2_data.no_price, ask2_above(market2_data.no_price, nstep))

\* an opportunity as analyze_markets returns it, with the books of its market
Opportunity(quotes, polymarket_depth, opinion_depth) ==
    [market |-> [outcomePrices |-> quotes.outcomePrices],
     market2_data |-> quotes.market2_data,
     arbitrage |-> calculate_arbitrage(quotes.outcomePrices, quotes.market2_data),
     polymarket_depth |-> polymarket_depth,
     opinion_depth |-> opinion_depth,
     orderbook_roi_percent |-> None,
     orderbook_roi_ask2_percent |-> None]

\* single-opportunity scenarios: every combination of present and absent
\* books and levels
InitRefinePair ==
    \E q \in FlatQuotes, d \in PolymarketDepths,
       ystep \in Ask2Steps, nstep \in Ask2Steps :
        pair_opportunities =
            <<Opportunity(q, d, opinion_depth_of(q.market2_data, ystep, nstep))>>

\* opportunities of the list scenarios, of ROI 25, 100 and 0
ListOpportunities ==
    LET opinion(q) == opinion_depth_of(q.market2_data, Frac(1, 10), None)
        q25 == [outcomePrices |-> <<Frac(2, 5), Frac(7, 10)>>,
                market2_data |-> [yes_price |-> Frac(7, 10), no_price |-> Frac(2, 5)]]
        q100 == [outcomePrices |-> <<Frac(1, 5), Frac(9, 10)>>,
                 market2_data |-> [yes_price |-> Frac(9, 10), no_price |-> Frac(3, 10)]]
        q0 == [outcomePrices |-> <<Zero, One>>,
               market2_data |-> [yes_price |-> One, no_price |-> Zero]]
    IN  {Opportunity(q25, None, opinion(q25)),
         Opportunity(q100, Depth(Frac(3, 10), Frac(2, 5), None, None), opinion(q100)),
         Opportunity(q0, None, opinion(q0)),
         Opportunity(q0, Depth(Frac(3, 10), None, None, None), opinion(q0))}

\* list scenarios: up to MaxRefineOpps opportunities of one venue pair
InitRefineList ==
    \E n \in 1 .. MaxRefineOpps :
        \E os \in [1 .. n -> ListOpportunities] : pair_opportunities = os

InitRefine ==
    /\ rpc = "select"
    /\ venue_pair \in VenuePairs
    /\ (InitRefinePair \/ InitRefineList)
    /\ top5 = <<>>
    /\ ridx = 1
    /\ MatchIdle
    /\ BookIdle
    /\ pc = "idle"
    /\ markets = <<>>
    /\ price_lookup = <<>>
    /\ idx = 1
    /\ last_arb = None
    /\ opportunities = <<>>
    /\ plan = None
    /\ warnings = <<>>
    /\ FetchIdle

NextRefine ==
    \/ SelectTop
    \/ RefineOpportunity
    \/ RefineReturn

SpecRefine == InitRefine /\ [][NextRefine]_vars

-----------------------------------------------------------------------------
\* src/src/polymarket.py and src/src/opinion.py: the depth of an order book
\*
\* A level of a book is [price |-> p] where p is None when the level has no
\* price and else [text |-> <<...>>], the decimal string the venue sends.
\* The sizes of the levels and the *_size_usd fields are left out: they do
\* not enter the choice of the levels.

digit_of(c) ==
    CASE c = "0" -> 0 [] c = "1" -> 1 [] c = "2" -> 2 [] c = "3" -> 3
      [] c = "4" -> 4 [] c = "5" -> 5 [] c = "6" -> 6 [] c = "7" -> 7
      [] c = "8" -> 8 [] c = "9" -> 9

\* the number a string of digits denotes
RECURSIVE digits_value(_)
digits_value(digits) ==
    IF digits = <<>> THEN 0
    ELSE 10 * digits_value(SubSeq(digits, 1, Len(digits) - 1))
         + digit_of(digits[Len(digits)])

RECURSIVE pow10(_)
pow10(k) == IF k = 0 THEN 1 ELSE 10 * pow10(k - 1)

\* float(text) for a decimal string with at most one point
float_of(text) ==
    LET dots == {i \in 1 .. Len(text) : text[i] = "."}
        dot == IF dots = {} THEN Len(text) + 1 ELSE CHOOSE i \in dots : TRUE
        whole == SubSeq(text, 1, dot - 1)
        fraction == SubSeq(text, dot + 1, Len(text))
    IN  Frac(digits_value(whole) * pow10(Len(fraction)) + digits_value(fraction),
             pow10(Len(fraction)))

\* float(x['price']) if x.get('price') else None
price_or_none(level) ==
    IF level.price = None \/ level.price.text = <<>> THEN None
    ELSE float_of(level.price.text)

\* the levels of a side read from the front of the list
level_from_front(levels, k) ==
    IF Len(levels) >= k THEN price_or_none(levels[k]) ELSE None

\* bids[-k] / asks[-k]: the k-th level from the end of the list as the venue
\* sent it, None when the list is shorter or the level has no price
level_from_end(levels, k) ==
    IF Len(levels) >= k THEN price_or_none(levels[Len(levels) + 1 - k])
    ELSE None

\* extract_orderbook_depth(orderbook, target_price); the book has both keys
extract_orderbook_depth(orderbook) ==
    LET result == [bid1_price |-> level_from_end(orderbook.bids, 1),
                   bid2_price |-> level_from_end(orderbook.bids, 2),
                   ask1_price |-> level_from_end(orderbook.asks, 1),
                   ask2_price |-> level_from_end(orderbook.asks, 2)]
    IN  IF result.bid1_price = None /\ result.bid2_price = None
           /\ result.ask1_price = None /\ result.ask2_price = None
        THEN None
        ELSE result

\* float(x['price']) raises KeyError or ValueError for some level
sort_raises(levels) ==
    \E i \in 1 .. Len(levels) :
        levels[i].price = None \/ levels[i].price.text = <<>>

\* sorted(levels, key=lambda x: float(x['price']), reverse=reverse): stable
\* insertion of the levels one by one
RECURSIVE sorted_levels(_, _)
sorted_levels(levels, reverse) ==
    IF levels = <<>> THEN <<>>
    ELSE LET n == Len(levels)
             last == levels[n]
             key(x) == float_of(x.price.text)
             init == sorted_levels(SubSeq(levels, 1, n - 1), reverse)
             stay(x) == IF reverse THEN Ge(key(x), key(last))
                        ELSE Le(key(x), key(last))
         IN  SelectSeq(init, stay) \o <<last>>
             \o SelectSeq(init, LAMBDA x : ~stay(x))

\* extract_opinion_orderbook_depth(sorted_bids, sorted_asks)
extract_opinion_orderbook_depth(sorted_bids, sorted_asks) ==
    IF sorted_asks = <<>> THEN None
    ELSE [bid1_price |-> level_from_front(sorted_bids, 1),
          bid2_price |-> level_from_front(sorted_bids, 2),
          ask1_price |-> level_from_front(sorted_asks, 1),
          ask2_price |-> level_from_front(sorted_asks, 2)]

\* the depth fetch_token_orderbook returns for the book the venue sent; an
\* exception of the sort or of the extraction is caught and gives None
fetch_token_orderbook(orderbook) ==
    IF sort_raises(orderbook.bids) \/ sort_raises(orderbook.asks) THEN None
    ELSE extract_opinion_orderbook_depth(sorted_levels(orderbook.bids, TRUE),
                                         sorted_levels(orderbook.asks, FALSE))

\* the depth has not been extracted yet
Pending == [pending |-> TRUE]

\* main extracts the depth of a fetched Polymarket book
ExtractPolymarketDepth ==
    /\ yes_depth = Pending
    /\ yes_depth' = extract_orderbook_depth(raw_orderbook)
    /\ UNCHANGED <<raw_orderbook, orderbook_depth>>
    /\ UNCHANGED <<arb_vars, match_vars, refine_vars, fetch_vars>>

\* get_opinion_price_lookup receives the depth of a fetched Opinion book
FetchOpinionDepth ==
    /\ orderbook_depth = Pending
    /\ orderbook_depth' = fetch_token_orderbook(raw_orderbook)
    /\ UNCHANGED <<raw_orderbook, yes_depth>>
    /\ UNCHANGED <<arb_vars, match_vars, refine_vars, fetch_vars>>

\* Inputs: the books a venue sends

PriceText(text) == [text |-> text]

\* levels at 0.45, 0.5 and 0.6, and a level without a price
BookLevels ==
    {[price |-> PriceText(<<"0", ".", "4", "5">>)],
     [price |-> PriceText(<<"0", ".", "5">>)],
     [price |-> PriceText(<<"0", ".", "6">>)],
     [price |-> None]}

\* the sides of a book: up to MaxLevels levels in any order
BookSides == UNION {[1 .. n -> BookLevels] : n \in 0 .. MaxLevels}

InitBook ==
    /\ \E bids \in BookSides, asks \in BookSides :
           raw_orderbook = [bids |-> bids, asks |-> asks]
    /\ yes_depth = Pending
    /\ orderbook_depth = Pending
    /\ MatchIdle
    /\ RefineIdle
    /\ pc = "idle"
    /\ markets = <<>>
    /\ price_lookup = <<>>
    /\ idx = 1
    /\ last_arb = None
    /\ opportunities = <<>>
    /\ plan = None
    /\ warnings = <<>>
    /\ FetchIdle

NextBook ==
    \/ ExtractPolymarketDepth
    \/ FetchOpinionDepth

SpecBook == InitBook /\ [][NextBook]_vars

-----------------------------------------------------------------------------
\* src/src/polymarket.py, fetch_polymarket_orderbooks: the parallel fetch of
\* the Polymarket books

\* ThreadPoolExecutor(max_workers=10)
POLYMARKET_MAX_WORKERS == 10

\* future.result() raises what the fetch raised
Raised == [raised |-> TRUE]

\* what the venue does with a request for the book of a token
BOOKS == "a list with the book of the token"

BOOK_WITHOUT_ASSET_ID == "a list with a book that has no asset_id"

EMPTY_LIST == "an empty list"

REQUEST_EXCEPTION == "requests.exceptions.RequestException"

NOT_A_LIST == "a JSON object that is not a list"

Responses ==
    {BOOKS, BOOK_WITHOUT_ASSET_ID, EMPTY_LIST, REQUEST_EXCEPTION, NOT_A_LIST}

\* the book the venue holds for a token
BookOf(token_id) == [asset_id |-> token_id]

\* orderbooks[0] of a non-empty list, None for an empty list and for a
\* RequestException; orderbooks[0] of a JSON object raises KeyError, which
\* the function does not catch
fetch_single_orderbook(token_id, response) ==
    IF response = BOOKS THEN BookOf(token_id)
    ELSE IF response = BOOK_WITHOUT_ASSET_ID THEN [asset_id |-> None]
    ELSE IF response = NOT_A_LIST THEN Raised
    ELSE None

\* d[key] = value
put(d, key, value) ==
    [k \in DOMAIN d \cup {key} |-> IF k = key THEN value ELSE d[k]]

\* the body of the as_completed loop for one finished fetch: the except
\* branch for a raising future.result(), the two tests for a returned one
with_orderbook(lookup, result) ==
    IF result = Raised \/ result = None THEN lookup
    ELSE IF result.asset_id = None THEN lookup
    ELSE put(lookup, result.asset_id, result)

Futures == 1 .. Len(future_to_token)

Running == {f \in Futures : future_state[f] = "running"}

\* the as_completed loop ending after the first future
loop_finished_on_first(futures, done) == done # {}

\* the as_completed loop ends when it has yielded every future
loop_finished(futures, done) == done = futures

\* if not clob_token_ids: return {}; otherwise every fetch is submitted
SubmitPolymarket ==
    /\ fpc = "submit_polymarket"
    /\ IF future_to_token = <<>>
       THEN fpc' = "returned"
       ELSE fpc' = "collect_polymarket"
    /\ UNCHANGED <<opinion_markets, future_to_token, future_state,
                   future_result, yielded, orderbook_lookup, prices_map,
                   returned_lookup>>
    /\ UNCHANGED <<arb_vars, match_vars, refine_vars, book_vars>>

\* a worker thread of the pool takes a queued fetch
StartFetch(f, max_workers) ==
    /\ fpc \in {"collect_polymarket", "collect_opinion"}
    /\ future_state[f] = "queued"
    /\ Cardinality(Running) < max_workers
    /\ future_state' = [future_state EXCEPT ![f] = "running"]
    /\ UNCHANGED <<fpc, opinion_markets, future_to_token, future_result,
                   yielded, orderbook_lookup, prices_map, returned_lookup>>
    /\ UNCHANGED <<arb_vars, match_vars, refine_vars, book_vars>>

\* a worker thread finishes fetch_single_orderbook
FinishPolymarketFetch(f, response) ==
    /\ fpc = "collect_polymarket"
    /\ future_state[f] = "running"
    /\ future_state' = [future_state EXCEPT ![f] = "done"]
    /\ future_result' =
           [future_result EXCEPT
               ![f] = fetch_single_orderbook(future_to_token[f], response)]
    /\ UNCHANGED <<fpc, opinion_markets, future_to_token, yielded,
                   orderbook_lookup, prices_map, returned_lookup>>
    /\ UNCHANGED <<arb_vars, match_vars, refine_vars, book_vars>>

\* one iteration of for future in as_completed(future_to_token)
CollectPolymarket(f) ==
    /\ fpc = "collect_polymarket"
    /\ future_state[f] = "done"
    /\ f \notin yielded
    /\ yielded' = yielded \cup {f}
    /\ orderbook_lookup' = with_orderbook(orderbook_lookup, future_result[f])
    /\ UNCHANGED <<fpc, opinion_markets, future_to_token, future_state,
                   future_result, prices_map, returned_lookup>>
    /\ UNCHANGED <<arb_vars, match_vars, refine_vars, book_vars>>

\* the loop is exhausted, the with block is left and the lookup returned
ReturnPolymarket ==
    /\ fpc = "collect_polymarket"
    /\ loop_finished(Futures, yielded)
    /\ fpc' = "returned"
    /\ UNCHANGED <<opinion_markets, future_to_token, future_state,
                   future_result, yielded, orderbook_lookup, prices_map,
                   returned_lookup>>
    /\ UNCHANGED <<arb_vars, match_vars, refine_vars, book_vars>>

\* Inputs of the fetch: main passes list(token_ids_to_fetch), the ids of a
\* set, so the token ids are distinct

TokenId(i) == [token |-> i]

InitPolymarketFetch ==
    /\ fpc = "submit_polymarket"
    /\ \E n \in 0 .. MaxTokens :
           /\ future_to_token = [i \in 1 .. n |-> TokenId(i)]
           /\ future_state = [i \in 1 .. n |-> "queued"]
           /\ future_result = [i \in 1 .. n |-> Pending]
    /\ yielded = {}
    /\ orderbook_lookup = <<>>
    /\ opinion_markets = <<>>
    /\ prices_map = <<>>
    /\ returned_lookup = <<>>
    /\ MatchIdle
    /\ RefineIdle
    /\ BookIdle
    /\ pc = "idle"
    /\ markets = <<>>
    /\ price_lookup = <<>>
    /\ idx = 1
    /\ last_arb = None
    /\ opportunities = <<>>
    /\ plan = None
    /\ warnings = <<>>

NextPolymarketFetch ==
    \/ SubmitPolymarket
    \/ \E f \in Futures : StartFetch(f, POLYMARKET_MAX_WORKERS)
    \/ \E f \in Futures, response \in Responses : FinishPolymarketFetch(f, response)
    \/ \E f \in Futures : CollectPolymarket(f)
    \/ ReturnPolymarket

SpecPolymarketFetch == InitPolymarketFetch /\ [][NextPolymarketFetch]_vars

-----------------------------------------------------------------------------
\* src/src/opinion.py, get_opinion_price_lookup: the parallel fetch of the
\* Opinion token books and the lookup built from them

\* ThreadPoolExecutor(max_workers=20)
OPINION_MAX_WORKERS == 20

\* what the venue does with a request for the book of a token
BOOK == "errno 0 and the book of the token"

ERRNO == "an errno other than 0"

NOT_AN_OBJECT == "a JSON value that is not an object"

OpinionResponses == {BOOK, ERRNO, REQUEST_EXCEPTION, NOT_AN_OBJECT}

Level(text) == [price |-> PriceText(text)]

\* the book the venue holds for a token, levels in the order it sends them:
\* two asks, one ask, bids only, an ask without a price
OpinionBookOf(token_id) ==
    CASE token_id.token % 4 = 1 ->
             [bids |-> <<Level(<<"0", ".", "3">>)>>,
              asks |-> <<Level(<<"0", ".", "6">>), Level(<<"0", ".", "4", "5">>)>>]
      [] token_id.token % 4 = 2 ->
             [bids |-> <<>>, asks |-> <<Level(<<"0", ".", "5">>)>>]
      [] token_id.token % 4 = 3 ->
             [bids |-> <<Level(<<"0", ".", "4", "5">>)>>, asks |-> <<>>]
      [] OTHER ->
             [bids |-> <<>>, asks |-> <<Level(<<"0", ".", "5">>), [price |-> None]>>]

\* the depth of the tuple fetch_token_orderbook returns, after the request:
\* None for an errno and for a caught exception; data.get of a value that is
\* not an object raises AttributeError, which the function does not catch
fetch_token_orderbook_of(token_id, response) ==
    IF response = BOOK THEN fetch_token_orderbook(OpinionBookOf(token_id))
    ELSE IF response = NOT_AN_OBJECT THEN Raised
    ELSE None

has_tokens(market) == market.yes_token_id # None /\ market.no_token_id # None

\* token_requests: two requests for every market with both token ids
RECURSIVE token_requests(_)
token_requests(market_list) ==
    IF market_list = <<>> THEN <<>>
    ELSE LET n == Len(market_list)
             market == market_list[n]
         IN  token_requests(SubSeq(market_list, 1, n - 1))
             \o (IF has_tokens(market)
                 THEN <<[market |-> n, token_id |-> market.yes_token_id,
                         token_type |-> "yes"],
                        [market |-> n, token_id |-> market.no_token_id,
                         token_type |-> "no"]>>
                 ELSE <<>>)

\* the body of the as_completed loop: prices_map[token_id] = orderbook_depth
\* when the depth is not None, nothing when future.result() raised
with_depth(map, token_id, result) ==
    IF result = Raised \/ result = None THEN map
    ELSE put(map, token_id, result)

\* get answering a depth at 0.5 for a token without one
get_or_default(map, key) ==
    IF key \in DOMAIN map THEN map[key]
    ELSE [bid1_price |-> None, bid2_price |-> None,
          ask1_price |-> Frac(1, 2), ask2_price |-> None]

\* prices_map.get(token_id)
get(map, key) == IF key \in DOMAIN map THEN map[key] ELSE None

\* the keys of the two depths with their prefixes
combined_depth(yes_orderbook, no_orderbook) ==
    [yes_bid1_price |-> yes_orderbook.bid1_price,
     yes_bid2_price |-> yes_orderbook.bid2_price,
     yes_ask1_price |-> yes_orderbook.ask1_price,
     yes_ask2_price |-> yes_orderbook.ask2_price,
     no_bid1_price |-> no_orderbook.bid1_price,
     no_bid2_price |-> no_orderbook.bid2_price,
     no_ask1_price |-> no_orderbook.ask1_price,
     no_ask2_price |-> no_orderbook.ask2_price]

\* the second loop over opinion_markets: the lookup after the first k markets
RECURSIVE build_price_lookup(_, _, _)
build_price_lookup(market_list, map, k) ==
    IF k = 0 THEN <<>>
    ELSE LET before == build_price_lookup(market_list, map, k - 1)
             market == market_list[k]
             yes_orderbook == get(map, market.yes_token_id)
             no_orderbook == get(map, market.no_token_id)
         IN  IF yes_orderbook = None \/ no_orderbook = None THEN before
             ELSE IF yes_orderbook.ask1_price = None
                     \/ no_orderbook.ask1_price = None THEN before
             ELSE put(before,
                      slug_title_key(market.polymarket_slug, market.market_title),
                      [market_id |-> market.market_id,
                       market_title |-> market.market_title,
                       polymarket_slug |-> market.polymarket_slug,
                       yes_price |-> yes_orderbook.ask1_price,
                       no_price |-> no_orderbook.ask1_price,
                       orderbook_depth |->
                           combined_depth(yes_orderbook, no_orderbook)])

\* token_requests is built and every fetch submitted
SubmitOpinion ==
    /\ fpc = "submit_opinion"
    /\ fpc' = "collect_opinion"
    /\ future_to_token' = token_requests(opinion_markets)
    /\ future_state' = [f \in 1 .. Len(token_requests(opinion_markets)) |-> "queued"]
    /\ future_result' = [f \in 1 .. Len(token_requests(opinion_markets)) |-> Pending]
    /\ UNCHANGED <<opinion_markets, yielded, orderbook_lookup, prices_map,
                   returned_lookup>>
    /\ UNCHANGED <<arb_vars, match_vars, refine_vars, book_vars>>

\* a worker thread finishes fetch_token_orderbook
FinishOpinionFetch(f, response) ==
    /\ fpc = "collect_opinion"
    /\ future_state[f] = "running"
    /\ future_state' = [future_state EXCEPT ![f] = "done"]
    /\ future_result' =
           [future_result EXCEPT
               ![f] = fetch_token_orderbook_of(future_to_token[f].token_id, response)]
    /\ UNCHANGED <<fpc, opinion_markets, future_to_token, yielded,
                   orderbook_lookup, prices_map, returned_lookup>>
    /\ UNCHANGED <<arb_vars, match_vars, refine_vars, book_vars>>

\* one iteration of for future in as_completed(future_to_token)
CollectOpinion(f) ==
    /\ fpc = "collect_opinion"
    /\ future_state[f] = "done"
    /\ f \notin yielded
    /\ yielded' = yielded \cup {f}
    /\ prices_map' = with_depth(prices_map, future_to_token[f].token_id,
                                future_result[f])
    /\ UNCHANGED <<fpc, opinion_markets, future_to_token, future_state,
                   future_result, orderbook_lookup, returned_lookup>>
    /\ UNCHANGED <<arb_vars, match_vars, refine_vars, book_vars>>

\* the loop is exhausted, the with block is left, the lookup built and returned
ReturnOpinion ==
    /\ fpc = "collect_opinion"
    /\ loop_finished(Futures, yielded)
    /\ fpc' = "returned"
    /\ returned_lookup' =
           build_price_lookup(opinion_markets, prices_map, Len(opinion_markets))
    /\ UNCHANGED <<opinion_markets, future_to_token, future_state,
                   future_result, yielded, orderbook_lookup, prices_map>>
    /\ UNCHANGED <<arb_vars, match_vars, refine_vars, book_vars>>

\* Inputs: the Opinion markets of a run

MarketTitles == <<Title(<<"b">>), Title(<<"c">>), Title(<<"d">>)>>

\* the token ids of a market: both books with asks, a NO book without asks,
\* a YES book with an ask without a price, no YES token id, and the tokens
\* of the first pair the other way round
TokenPairs ==
    {<<TokenId(1), TokenId(2)>>, <<TokenId(1), TokenId(3)>>,
     <<TokenId(4), TokenId(2)>>, <<None, TokenId(2)>>,
     <<TokenId(2), TokenId(1)>>}

OpinionMarket(i, tokens) ==
    [market_id |-> [id |-> 100 + i],
     market_title |-> MarketTitles[i],
     polymarket_slug |-> <<"a">>,
     yes_token_id |-> tokens[1],
     no_token_id |-> tokens[2]]

InitOpinionFetch ==
    /\ fpc = "submit_opinion"
    /\ \E n \in 1 .. MaxOpinionMarkets :
           \E tokens \in [1 .. n -> TokenPairs] :
               opinion_markets = [i \in 1 .. n |-> OpinionMarket(i, tokens[i])]
    /\ future_to_token = <<>>
    /\ future_state = <<>>
    /\ future_result = <<>>
    /\ yielded = {}
    /\ orderbook_lookup = <<>>
    /\ prices_map = <<>>
    /\ returned_lookup = <<>>
    /\ MatchIdle
    /\ RefineIdle
    /\ BookIdle
    /\ pc = "idle"
    /\ markets = <<>>
    /\ price_lookup = <<>>
    /\ idx = 1
    /\ last_arb = None
    /\ opportunities = <<>>
    /\ plan = None
    /\ warnings = <<>>

NextOpinionFetch ==
    \/ SubmitOpinion
    \/ \E f \in Futures : StartFetch(f, OPINION_MAX_WORKERS)
    \/ \E f \in Futures, response \in OpinionResponses : FinishOpinionFetch(f, response)
    \/ \E f \in Futures : CollectOpinion(f)
    \/ ReturnOpinion

SpecOpinionFetch == InitOpinionFetch /\ [][NextOpinionFetch]_vars

-----------------------------------------------------------------------------
\* Vocabulary of the properties

\* a pair has just been evaluated by calculate_arbitrage
Evaluated == last_arb # None

\* cost of "Yes on A, No on B" and of "No on A, Yes on B" for the quoted prices
CostYesANoB(arb) == Add(arb.market1_yes, arb.market2_no)

CostNoAYesB(arb) == Add(arb.market1_no, arb.market2_yes)

ProfitYesANoB(arb) == Sub(One, CostYesANoB(arb))

ProfitNoAYesB(arb) == Sub(One, CostNoAYesB(arb))

\* the quotes an opportunity was built from, read from the inputs
QuotedPrices(opp) ==
    [market1_yes |-> markets[opp.market].outcomePrices[1],
     market1_no |-> markets[opp.market].outcomePrices[2],
     market2_yes |-> price_lookup[markets[opp.market].conditionId].yes_price,
     market2_no |-> price_lookup[markets[opp.market].conditionId].no_price]

\* the result for the pair with the two venues exchanged
SwappedResult(arb) ==
    calculate_arbitrage(<<arb.market2_yes, arb.market2_no>>,
                        [yes_price |-> arb.market1_yes, no_price |-> arb.market1_no])

Allocated == pc = "allocated"

NumOpps == Len(opportunities)

\* the capital the policy weights propose for each opportunity, before any filter
Proposed ==
    IF plan.strategy = ROI_WEIGHTED /\ SumSeq(roi_values(opportunities)) # Zero
    THEN roi_share(opportunities, plan.total_capital)
    ELSE IF plan.strategy = KELLY /\ SumSeq(kelly_fractions(opportunities)) # Zero
    THEN kelly_share(opportunities, plan.total_capital)
    ELSE equal_share(opportunities, plan.total_capital)

InPlan(i) == \E k \in 1 .. Len(plan.allocations) : plan.allocations[k].opportunity = i

SumAllocated ==
    SumSeq([k \in 1 .. Len(plan.allocations) |-> plan.allocations[k].allocated_capital])

SumRejected ==
    SumSeq([i \in 1 .. NumOpps |-> IF InPlan(i) THEN Zero ELSE Proposed[i]])

\* the leg prices of the strategy selected for opportunity i
LegYes(i) ==
    LET arb == opportunities[i].arbitrage
    IN  IF arb.best_strategy.type = STRATEGY1 THEN arb.market1_yes ELSE arb.market2_yes

LegNo(i) ==
    LET arb == opportunities[i].arbitrage
    IN  IF arb.best_strategy.type = STRATEGY1 THEN arb.market2_no ELSE arb.market1_no

InUnit(x) == Gt(x, Zero) /\ Le(x, One)

WellFormed(i) ==
    /\ opportunities[i].arbitrage.best_strategy # None
    /\ InUnit(LegYes(i))
    /\ InUnit(LegNo(i))

\* the two leg bets the proposed capital of opportunity i splits into
ProposedBetYes(i) == Div(Mul(Proposed[i], LegNo(i)), Add(LegYes(i), LegNo(i)))

ProposedBetNo(i) == Div(Mul(Proposed[i], LegYes(i)), Add(LegYes(i), LegNo(i)))

BothLegsReachMin(i) ==
    /\ Ge(ProposedBetYes(i), Num(PLATFORM_MIN_BET))
    /\ Ge(ProposedBetNo(i), Num(PLATFORM_MIN_BET))

-----------------------------------------------------------------------------
\* C1: for every policy, every total_capital and every non-empty opportunity
\* list, the capital of the allocations in the plan (which is what
\* total_deployed reports) plus total_unallocated equals total_capital.
C1_Conservation ==
    (Allocated /\ opportunities # <<>>) =>
        /\ plan.total_deployed = SumAllocated
        /\ Add(SumAllocated, plan.total_unallocated) = plan.total_capital

\* a plan that deploys part of the budget and leaves part of it unallocated
C1_Witness ==
    /\ Allocated
    /\ Len(plan.allocations) >= 1
    /\ Len(plan.allocations) < NumOpps
    /\ Gt(plan.total_unallocated, Zero)

\* C2: every allocation of every plan has bet_yes >= PLATFORM_MIN_BET and
\* bet_no >= PLATFORM_MIN_BET.
C2_MinimumBet ==
    Allocated =>
        \A k \in 1 .. Len(plan.allocations) :
            /\ Ge(plan.allocations[k].bet_details.bet_yes, Num(PLATFORM_MIN_BET))
            /\ Ge(plan.allocations[k].bet_details.bet_no, Num(PLATFORM_MIN_BET))

\* a plan with an allocation, from which an opportunity whose share passed the
\* pre-filter is missing because one of its legs fell below the minimum
C2_Witness ==
    /\ Allocated
    /\ Len(plan.allocations) >= 1
    /\ \E i \in 1 .. NumOpps :
           /\ ~InPlan(i)
           /\ WellFormed(i)
           /\ Ge(Proposed[i], Num(2 * PLATFORM_MIN_BET))
           /\ Ge(ProposedBetYes(i), Num(PLATFORM_MIN_BET))
           /\ Lt(ProposedBetNo(i), Num(PLATFORM_MIN_BET))

\* C3: when both strategy costs are >= 1, calculate_arbitrage returns
\* best_strategy None and arbitrage_exists false, and no opportunity of the
\* list analyze_markets builds comes from such a pair.
C3_NoFalsePositive ==
    /\ (Evaluated /\ Ge(CostYesANoB(last_arb), One) /\ Ge(CostNoAYesB(last_arb), One)) =>
           /\ last_arb.best_strategy = None
           /\ ~last_arb.arbitrage_exists
    /\ \A k \in 1 .. NumOpps :
           ~(/\ Ge(CostYesANoB(QuotedPrices(opportunities[k])), One)
             /\ Ge(CostNoAYesB(QuotedPrices(opportunities[k])), One))

\* analyze_markets has returned an empty list for a pair that was evaluated
\* and whose costs are exactly 1 and above 1
C3_Witness ==
    /\ pc = "analyzed"
    /\ Evaluated
    /\ CostYesANoB(last_arb) = One
    /\ Gt(CostNoAYesB(last_arb), One)
    /\ opportunities = <<>>

\* C4: arbitrage_exists holds exactly when best_strategy is not None, a
\* best_strategy has profit > 0, and every collected opportunity has a
\* best_strategy with profit > 0.
C4_ExistsIffBest ==
    /\ Evaluated =>
           /\ last_arb.arbitrage_exists <=> last_arb.best_strategy # None
           /\ last_arb.best_strategy # None => Gt(last_arb.best_strategy.profit, Zero)
    /\ \A k \in 1 .. NumOpps :
           /\ opportunities[k].arbitrage.best_strategy # None
           /\ Gt(opportunities[k].arbitrage.best_strategy.profit, Zero)

\* an opportunity was collected for a pair with one profitable strategy and
\* one that loses money
C4_Witness ==
    /\ Evaluated
    /\ NumOpps = 1
    /\ last_arb.arbitrage_exists
    /\ Lt(ProfitYesANoB(last_arb), Zero)
    /\ Gt(ProfitNoAYesB(last_arb), Zero)

\* C5 as stated: when both strategies have the same profit > 0, the first
\* strategy "Yes on App1, No on App2" is the best_strategy.
C5_TieSelectsFirst ==
    (Evaluated /\ ProfitYesANoB(last_arb) = ProfitNoAYesB(last_arb)
               /\ Gt(ProfitYesANoB(last_arb), Zero)) =>
        /\ last_arb.best_strategy # None
        /\ last_arb.best_strategy.type = STRATEGY1

\* C5 as amended: when both strategies have the same profit > 0, the second
\* strategy "No on App1, Yes on App2" is the best_strategy.
C5_TieSelectsSecond ==
    (Evaluated /\ ProfitYesANoB(last_arb) = ProfitNoAYesB(last_arb)
               /\ Gt(ProfitYesANoB(last_arb), Zero)) =>
        /\ last_arb.best_strategy # None
        /\ last_arb.best_strategy.type = STRATEGY2
        /\ last_arb.best_strategy.profit = ProfitNoAYesB(last_arb)

\* a pair with two equally profitable strategies was evaluated
C5_Witness ==
    /\ Evaluated
    /\ ProfitYesANoB(last_arb) = ProfitNoAYesB(last_arb)
    /\ Gt(ProfitYesANoB(last_arb), Zero)
    /\ last_arb.market1_yes # last_arb.market1_no

\* C6: when a strategy has profit > 0, the best_strategy has the larger of the
\* two profits, cost = 1 - profit and roi_percent = profit / cost * 100.
C6_BestIsMaxProfit ==
    (Evaluated /\ (Gt(ProfitYesANoB(last_arb), Zero) \/ Gt(ProfitNoAYesB(last_arb), Zero))) =>
        /\ last_arb.best_strategy # None
        /\ last_arb.best_strategy.profit =
               RMax(ProfitYesANoB(last_arb), ProfitNoAYesB(last_arb))
        /\ last_arb.best_strategy.cost = Sub(One, last_arb.best_strategy.profit)
        /\ last_arb.best_strategy.cost # Zero
        /\ last_arb.best_strategy.roi_percent =
               Mul(Div(last_arb.best_strategy.profit, last_arb.best_strategy.cost),
                   Num(100))

\* C7: evaluating a pair and the pair with the venues exchanged gives a
\* best_strategy in both or in neither, with the same profit.
C7_Symmetry ==
    Evaluated =>
        /\ last_arb.best_strategy = None <=> SwappedResult(last_arb).best_strategy = None
        /\ last_arb.best_strategy # None =>
               last_arb.best_strategy.profit = SwappedResult(last_arb).best_strategy.profit

\* both strategies of the evaluated pair are profitable, with different profits
C7_Witness ==
    /\ Evaluated
    /\ Gt(ProfitYesANoB(last_arb), Zero)
    /\ Gt(ProfitNoAYesB(last_arb), ProfitYesANoB(last_arb))
    /\ SwappedResult(last_arb).best_strategy.type = STRATEGY1

\* C8: a strategy with cost <= 0 is never the best_strategy and does not make
\* arbitrage_exists true.
C8_DegenerateCostIgnored ==
    Evaluated =>
        /\ last_arb.best_strategy # None => Gt(last_arb.best_strategy.cost, Zero)
        /\ last_arb.arbitrage_exists =>
               \/ Gt(CostYesANoB(last_arb), Zero) /\ Gt(ProfitYesANoB(last_arb), Zero)
               \/ Gt(CostNoAYesB(last_arb), Zero) /\ Gt(ProfitNoAYesB(last_arb), Zero)

\* C9: an opportunity with a best_strategy and leg prices in (0, 1] is absent
\* from the plan exactly when one of the leg bets of its proposed capital is
\* below PLATFORM_MIN_BET; in particular the pre-filter passes every
\* opportunity whose two leg bets reach the minimum.
C9_RejectedIffLegBelowMin ==
    Allocated =>
        \A i \in 1 .. NumOpps :
            WellFormed(i) =>
                /\ InPlan(i) <=> BothLegsReachMin(i)
                /\ BothLegsReachMin(i) => passes_prefilter(Proposed[i])

\* one opportunity is in the plan with exactly 2 * PLATFORM_MIN_BET split
\* 5 / 5, another passed the pre-filter and was rejected for a small leg
C9_Witness ==
    /\ Allocated
    /\ \E i \in 1 .. NumOpps :
           /\ WellFormed(i)
           /\ InPlan(i)
           /\ Proposed[i] = Num(2 * PLATFORM_MIN_BET)
           /\ ProposedBetYes(i) = Num(PLATFORM_MIN_BET)
    /\ \E j \in 1 .. NumOpps :
           /\ WellFormed(j)
           /\ ~InPlan(j)
           /\ passes_prefilter(Proposed[j])

\* C10 as stated: the run never fails, every allocation of the plan keeps the
\* capital the policy proposed, and total_unallocated is the sum of the
\* proposed capital of the opportunities missing from the plan.
C10_UnallocatedIsRejected ==
    /\ pc # "raised"
    /\ Allocated =>
           /\ \A k \in 1 .. Len(plan.allocations) :
                  plan.allocations[k].allocated_capital =
                      Proposed[plan.allocations[k].opportunity]
           /\ plan.total_unallocated = SumRejected

\* C10 as amended: the same, for a non-empty opportunity list.
C10_UnallocatedIsRejectedNonEmpty ==
    /\ pc # "raised"
    /\ (Allocated /\ opportunities # <<>>) =>
           /\ \A k \in 1 .. Len(plan.allocations) :
                  plan.allocations[k].allocated_capital =
                      Proposed[plan.allocations[k].opportunity]
           /\ plan.total_unallocated = SumRejected

\* exactly one opportunity was rejected and one allocated, and the
\* unallocated capital is the rejected opportunity's share
C10_Witness ==
    /\ Allocated
    /\ NumOpps = 2
    /\ Len(plan.allocations) = 1
    /\ \E i \in 1 .. NumOpps :
           /\ ~InPlan(i)
           /\ Gt(Proposed[i], Zero)
           /\ plan.total_unallocated = Proposed[i]

-----------------------------------------------------------------------------
\* C11: for every allocation with leg prices in (0, 1], the split of
\* calculate_bet_amounts buys as many YES shares (bet_yes / price_yes) as NO
\* shares (bet_no / price_no).
C11_EqualShares ==
    Allocated =>
        \A k \in 1 .. Len(plan.allocations) :
            LET b == plan.allocations[k].bet_details
            IN  (InUnit(b.price_yes) /\ InUnit(b.price_no)) =>
                    Div(b.bet_yes, b.price_yes) = Div(b.bet_no, b.price_no)

\* every opportunity has ROI zero / clamped Kelly fraction zero
AllRoiZero == \A i \in 1 .. NumOpps : roi_value(opportunities[i]) = Zero

AllKellyZero == \A i \in 1 .. NumOpps : kelly_fraction(opportunities[i]) = Zero

\* C12: when every ROI is zero (ROI_WEIGHTED) or every clamped Kelly fraction
\* is zero (KELLY), the policy returns the allocations of EQUAL and the plan
\* has the allocations, amounts and totals of the EQUAL plan.
C12_FallbackIsEqual ==
    Allocated =>
        /\ (plan.strategy = ROI_WEIGHTED /\ AllRoiZero) =>
               /\ roi_weighted_allocation(opportunities, plan.total_capital) =
                      equal_weight_allocation(opportunities, plan.total_capital)
               /\ [plan EXCEPT !.strategy = EQUAL] =
                      allocate_capital(opportunities, plan.total_capital, EQUAL)
        /\ (plan.strategy = KELLY /\ AllKellyZero) =>
               /\ kelly_allocation(opportunities, plan.total_capital) =
                      equal_weight_allocation(opportunities, plan.total_capital)
               /\ [plan EXCEPT !.strategy = EQUAL] =
                      allocate_capital(opportunities, plan.total_capital, EQUAL)

\* a ROI_WEIGHTED plan for two opportunities of ROI zero, both of which the
\* EQUAL weights pass on to the bet calculation
C12_Witness ==
    /\ Allocated
    /\ plan.strategy = ROI_WEIGHTED
    /\ NumOpps = 2
    /\ AllRoiZero
    /\ Len(equal_weight_allocation(opportunities, plan.total_capital)) = 2

\* C13: no collected opportunity comes from a closed market, and none from a
\* pair in which one of the four prices is missing or zero.
C13_UsableQuotesOnly ==
    \A k \in 1 .. NumOpps :
        LET market == markets[opportunities[k].market]
            entry == price_lookup[market.conditionId]
        IN  /\ ~market.closed
            /\ Len(market.outcomePrices) >= 2
            /\ market.outcomePrices[1] # Zero
            /\ market.outcomePrices[2] # Zero
            /\ entry.yes_price # None /\ entry.yes_price # Zero
            /\ entry.no_price # None /\ entry.no_price # Zero

-----------------------------------------------------------------------------
\* Vocabulary of the three-venue properties

\* positions <<c, m>> of the venue-A markets, category by category
PolyPositions ==
    UNION {{<<c, m>> : m \in 1 .. Len(poly_cat_with_markets[c].markets)} :
              c \in 1 .. Len(poly_cat_with_markets)}

SlugAt(p) == poly_cat_with_markets[p[1]].slug

MarketAt(p) == poly_cat_with_markets[p[1]].markets[p[2]]

\* category_slug + '||' + title of the market at p
OpinionKeyAt(p) ==
    SlugAt(p) \o <<"|", "|">>
        \o (IF MarketAt(p).title = None THEN <<"N", "o", "n", "e">>
            ELSE MarketAt(p).title.text)

HasPredictEntry(p) ==
    /\ MarketAt(p).conditionId # None
    /\ MarketAt(p).conditionId \in DOMAIN predict_price_lookup

HasOpinionEntry(p) == OpinionKeyAt(p) \in DOMAIN opinion_price_lookup

\* the market at p is one find_opinion_predict_matches must match
Matchable(p) ==
    /\ ~MarketAt(p).closed
    /\ MarketAt(p).title # None
    /\ HasPredictEntry(p)
    /\ HasOpinionEntry(p)

\* the match the market at p gives rise to
ExpectedMatch(p) ==
    [opinion |-> opinion_price_lookup[OpinionKeyAt(p)],
     predict |-> predict_price_lookup[MarketAt(p).conditionId],
     polymarket_slug |-> SlugAt(p),
     market_title |-> MarketAt(p).title]

\* the market at p as analyze_markets sees it in slug mode
SlugMarketAt(p) ==
    [closed |-> MarketAt(p).closed,
     outcomePrices |-> MarketAt(p).outcomePrices,
     conditionId |-> MarketAt(p).conditionId,
     title |-> MarketAt(p).title,
     category_slug |-> SlugAt(p)]

\* C14: find_opinion_predict_matches returns one match for exactly the
\* venue-A markets that are open, have a conditionId and a title, and have a
\* predict.fun entry under their conditionId and an Opinion entry under
\* category_slug||title; every match carries the two entries found under the
\* keys of one venue-A market.
C14_TransitiveMatch ==
    mpc = "done" =>
        /\ Len(matched_pairs) =
               Cardinality({p \in PolyPositions : Matchable(p)})
        /\ \A p \in PolyPositions :
               Matchable(p) =>
                   \E i \in 1 .. Len(matched_pairs) :
                       matched_pairs[i] = ExpectedMatch(p)
        /\ \A i \in 1 .. Len(matched_pairs) :
               \E p \in PolyPositions :
                   Matchable(p) /\ matched_pairs[i] = ExpectedMatch(p)

\* two venue-A markets were examined; one is matched, the other is not
C14_Witness ==
    /\ mpc = "done"
    /\ Cardinality(PolyPositions) = 2
    /\ Len(matched_pairs) = 1
    /\ \E p \in PolyPositions : MarketAt(p).closed /\ HasPredictEntry(p)
                                /\ HasOpinionEntry(p)

\* C15: in slug/title mode get_price_from_lookup returns a quote for a market
\* if and only if the lookup has the key category_slug||title with both
\* prices, the quote is the entry under that key, and the scan over the keys
\* accepts no key other than that one.
C15_SlugModeExactKey ==
    mpc \in {"match", "done"} =>
        \A p \in PolyPositions :
            LET quote == get_price_from_lookup_by_slug(SlugMarketAt(p),
                                                       opinion_price_lookup)
                found == /\ HasOpinionEntry(p)
                         /\ opinion_price_lookup[OpinionKeyAt(p)].yes_price # None
                         /\ opinion_price_lookup[OpinionKeyAt(p)].no_price # None
            IN  /\ (quote # None) <=> found
                /\ quote # None =>
                       quote.market_id =
                           opinion_price_lookup[OpinionKeyAt(p)].market_id
                /\ fuzzy_hits(opinion_price_lookup, SlugAt(p), MarketAt(p).title)
                       \subseteq {OpinionKeyAt(p)}
                /\ ~MarketAt(p).closed =>
                       ((\E i \in 1 .. Len(all_opinion_opportunities) :
                             all_opinion_opportunities[i].market = SlugMarketAt(p))
                        <=> found)

\* one market is quoted under its key; another has no key of its own although
\* the lookup holds a key with its title under a different slug
C15_Witness ==
    /\ mpc = "match"
    /\ Len(all_opinion_opportunities) = 1
    /\ \E p \in PolyPositions :
           /\ ~MarketAt(p).closed
           /\ MarketAt(p).title # None
           /\ ~HasOpinionEntry(p)
           /\ \E key \in DOMAIN opinion_price_lookup :
                  split_key(key)[2] = MarketAt(p).title.text

\* C16: a venue-A market without a counterpart in a lookup is skipped without
\* an error: the run never raises, the market gets no opportunity against
\* that venue and no match, and an empty lookup gives an empty result for
\* every pair that venue is part of.
C16_UnmatchedSkipped ==
    /\ mpc # "raised"
    /\ mpc = "done" =>
        /\ \A p \in PolyPositions :
               /\ ~HasPredictEntry(p) =>
                      \A i \in 1 .. Len(all_opportunities) :
                          all_opportunities[i].market # MarketAt(p)
               /\ ~HasOpinionEntry(p) =>
                      \A i \in 1 .. Len(all_opinion_opportunities) :
                          all_opinion_opportunities[i].market # SlugMarketAt(p)
               /\ ~HasPredictEntry(p) =>
                      \A i \in 1 .. Len(matched_pairs) :
                          ~ /\ matched_pairs[i].polymarket_slug = SlugAt(p)
                            /\ matched_pairs[i].market_title = MarketAt(p).title
                            /\ MarketAt(p).conditionId # None
                            /\ matched_pairs[i].predict =
                                   PredictEntry(MarketAt(p).conditionId.id)
               /\ ~HasOpinionEntry(p) =>
                      \A i \in 1 .. Len(matched_pairs) :
                          ~ /\ matched_pairs[i].polymarket_slug = SlugAt(p)
                            /\ matched_pairs[i].market_title = MarketAt(p).title
        /\ predict_price_lookup = <<>> =>
               all_opportunities = <<>> /\ matched_pairs = <<>>
        /\ opinion_price_lookup = <<>> =>
               all_opinion_opportunities = <<>> /\ matched_pairs = <<>>

\* the run has ended with an empty Opinion lookup and with a market that has
\* no predict.fun entry next to one that has
C16_Witness ==
    /\ mpc = "done"
    /\ opinion_price_lookup = <<>>
    /\ Len(all_opportunities) = 1
    /\ \E p \in PolyPositions : ~MarketAt(p).closed /\ ~HasPredictEntry(p)

-----------------------------------------------------------------------------
\* Vocabulary of the refinement properties

\* the refinement loop has handled the opportunity at index i
Refined(i) ==
    /\ rpc \in {"refine", "done"}
    /\ \E k \in 1 .. Len(top5) : top5[k] = i /\ k < ridx

Book1(i) == platform1_orderbook_of(venue_pair, pair_opportunities[i])

Book2(i) == platform2_orderbook_of(venue_pair, pair_opportunities[i])

\* the outcome the opportunity buys on the first and on the second platform
Side1(i) ==
    IF pair_opportunities[i].arbitrage.best_strategy.type = STRATEGY1
    THEN "yes" ELSE "no"

Side2(i) ==
    IF pair_opportunities[i].arbitrage.best_strategy.type = STRATEGY1
    THEN "no" ELSE "yes"

Flat1(i) ==
    IF Side1(i) = "yes" THEN pair_opportunities[i].market.outcomePrices[1]
    ELSE pair_opportunities[i].market.outcomePrices[2]

Flat2(i) ==
    IF Side2(i) = "yes" THEN pair_opportunities[i].market2_data.yes_price
    ELSE pair_opportunities[i].market2_data.no_price

\* the ask of a book for a side at a level, None when book or level is absent
AskAt(book, side, level) ==
    IF book = None THEN None
    ELSE IF side = "yes" /\ level = 1 THEN book.yes_ask1_price
    ELSE IF side = "yes" THEN book.yes_ask2_price
    ELSE IF level = 1 THEN book.no_ask1_price
    ELSE book.no_ask2_price

\* the price of a leg by its own book: its ask at the level, else its flat
OwnPrice(book, side, level, flat) ==
    IF AskAt(book, side, level) # None THEN AskAt(book, side, level) ELSE flat

ExpectedCost(i, level) ==
    Add(OwnPrice(Book1(i), Side1(i), level, Flat1(i)),
        OwnPrice(Book2(i), Side2(i), level, Flat2(i)))

ExpectedRoi(i, level) ==
    IF Gt(ExpectedCost(i, level), Zero)
    THEN Mul(Div(Sub(One, ExpectedCost(i, level)), ExpectedCost(i, level)),
             Num(100))
    ELSE None

\* C17: each leg of a refined opportunity is priced by its own book alone
\* (the ask of the level when present, else the flat price), and each figure
\* is (1 - cost)/cost*100 of the two leg prices whenever that cost is > 0,
\* for every combination of present and absent books and levels.
C17_LegsIndependent ==
    \A i \in 1 .. Len(pair_opportunities) :
        Refined(i) =>
            /\ pair_opportunities[i].orderbook_roi_percent = ExpectedRoi(i, 1)
            /\ pair_opportunities[i].orderbook_roi_ask2_percent = ExpectedRoi(i, 2)

\* a refined opportunity whose first leg has a book with the ask it needs and
\* whose second leg has no book at all
C17_Witness ==
    \E i \in 1 .. Len(pair_opportunities) :
        /\ Refined(i)
        /\ AskAt(Book1(i), Side1(i), 1) # None
        /\ Book2(i) = None
        /\ pair_opportunities[i].orderbook_roi_percent # None
        /\ pair_opportunities[i].orderbook_roi_percent #
               pair_opportunities[i].arbitrage.best_strategy.roi_percent

\* a leg's two levels are in book order
LegSorted(book, side) ==
    (AskAt(book, side, 1) # None /\ AskAt(book, side, 2) # None) =>
        Ge(AskAt(book, side, 2), AskAt(book, side, 1))

BooksSorted(i) ==
    LegSorted(Book1(i), Side1(i)) /\ LegSorted(Book2(i), Side2(i))

HasBothFigures(i) ==
    /\ pair_opportunities[i].orderbook_roi_percent # None
    /\ pair_opportunities[i].orderbook_roi_ask2_percent # None

\* C18 as stated: with sorted books the ask2 figure of a refined opportunity
\* is never above its ask1 figure, whatever books and levels are present.
C18_Ask2Conservative ==
    \A i \in 1 .. Len(pair_opportunities) :
        (Refined(i) /\ BooksSorted(i) /\ HasBothFigures(i)) =>
            Le(pair_opportunities[i].orderbook_roi_ask2_percent,
               pair_opportunities[i].orderbook_roi_percent)

\* a leg has both levels or neither
LegLevelsTogether(book, side) ==
    (AskAt(book, side, 1) = None) <=> (AskAt(book, side, 2) = None)

\* C18 amended: with sorted books in which every leg has both ask levels or
\* neither, the ask2 figure of a refined opportunity is never above its ask1
\* figure.
C18_Ask2ConservativeBothLevels ==
    \A i \in 1 .. Len(pair_opportunities) :
        (/\ Refined(i) /\ BooksSorted(i) /\ HasBothFigures(i)
         /\ LegLevelsTogether(Book1(i), Side1(i))
         /\ LegLevelsTogether(Book2(i), Side2(i))) =>
            Le(pair_opportunities[i].orderbook_roi_ask2_percent,
               pair_opportunities[i].orderbook_roi_percent)

\* a refined opportunity with two levels on each leg and a strictly lower
\* ask2 figure
C18_Witness ==
    \E i \in 1 .. Len(pair_opportunities) :
        /\ Refined(i) /\ BooksSorted(i) /\ HasBothFigures(i)
        /\ AskAt(Book1(i), Side1(i), 1) # None
        /\ AskAt(Book1(i), Side1(i), 2) # None
        /\ AskAt(Book2(i), Side2(i), 1) # None
        /\ AskAt(Book2(i), Side2(i), 2) # None
        /\ Lt(pair_opportunities[i].orderbook_roi_ask2_percent,
              pair_opportunities[i].orderbook_roi_percent)

\* C19: once the refinement of a venue pair has ended, at most 5 of its
\* opportunities carry orderbook_roi_percent, and no opportunity without it
\* has a strictly higher flat roi_percent than one that carries it.
C19_TopFiveOnly ==
    rpc = "done" =>
        LET with_roi == {i \in 1 .. Len(pair_opportunities) :
                            pair_opportunities[i].orderbook_roi_percent # None}
            flat(i) == pair_opportunities[i].arbitrage.best_strategy.roi_percent
        IN  /\ Cardinality(with_roi) <= 5
            /\ \A i \in with_roi :
                   \A j \in (1 .. Len(pair_opportunities)) \ with_roi :
                       ~Gt(flat(j), flat(i))

\* more than five opportunities were ranked, five carry a refined figure and
\* an opportunity of lower ROI was left out
C19_Witness ==
    /\ rpc = "done"
    /\ Len(pair_opportunities) > 5
    /\ Cardinality({i \in 1 .. Len(pair_opportunities) :
                       pair_opportunities[i].orderbook_roi_percent # None}) = 5
    /\ \E i, j \in 1 .. Len(pair_opportunities) :
           /\ pair_opportunities[i].orderbook_roi_percent # None
           /\ pair_opportunities[j].orderbook_roi_percent = None
           /\ Lt(pair_opportunities[j].arbitrage.best_strategy.roi_percent,
                 pair_opportunities[i].arbitrage.best_strategy.roi_percent)

-----------------------------------------------------------------------------
\* Vocabulary of the order-book properties

\* every level of the side has a price
AllPriced(levels) ==
    \A i \in 1 .. Len(levels) :
        levels[i].price # None /\ levels[i].price.text # <<>>

PriceAt(levels, i) == float_of(levels[i].price.text)

\* p is the best price of the side: the lowest when lowest, else the highest
IsBest(levels, p, lowest) ==
    /\ \E i \in 1 .. Len(levels) : PriceAt(levels, i) = p
    /\ \A i \in 1 .. Len(levels) :
           IF lowest THEN Le(p, PriceAt(levels, i)) ELSE Ge(p, PriceAt(levels, i))

\* p1 and p2 are the two best prices of the side, in that order
AreTwoBest(levels, p1, p2, lowest) ==
    \E i, j \in 1 .. Len(levels) :
        /\ i # j
        /\ PriceAt(levels, i) = p1
        /\ PriceAt(levels, j) = p2
        /\ IF lowest THEN Le(p1, p2) ELSE Ge(p1, p2)
        /\ \A k \in (1 .. Len(levels)) \ {i, j} :
               IF lowest THEN Le(p2, PriceAt(levels, k))
               ELSE Ge(p2, PriceAt(levels, k))

\* the depth reports the best and second-best level of each side of the book
DepthIsBest(depth) ==
    /\ Len(raw_orderbook.asks) >= 1 =>
           depth # None /\ IsBest(raw_orderbook.asks, depth.ask1_price, TRUE)
    /\ Len(raw_orderbook.asks) >= 2 =>
           AreTwoBest(raw_orderbook.asks, depth.ask1_price, depth.ask2_price, TRUE)
    /\ (Len(raw_orderbook.bids) >= 1 /\ depth # None) =>
           IsBest(raw_orderbook.bids, depth.bid1_price, FALSE)
    /\ (Len(raw_orderbook.bids) >= 2 /\ depth # None) =>
           AreTwoBest(raw_orderbook.bids, depth.bid1_price, depth.bid2_price, FALSE)

WellFormedBook == AllPriced(raw_orderbook.bids) /\ AllPriced(raw_orderbook.asks)

\* the Opinion path reports the best levels of a book sent in any order
OpinionDepthIsBest ==
    (orderbook_depth # Pending /\ WellFormedBook) => DepthIsBest(orderbook_depth)

\* C20: for a book whose levels arrive in any order, the extracted depth has
\* the lowest ask as ask1, the second-lowest as ask2, the highest bid as bid1
\* and the second-highest as bid2, both for extract_orderbook_depth
\* (Polymarket) and for fetch_token_orderbook with
\* extract_opinion_orderbook_depth (Opinion).
C20_DepthIsBestLevels ==
    /\ (yes_depth # Pending /\ WellFormedBook) => DepthIsBest(yes_depth)
    /\ OpinionDepthIsBest

-----------------------------------------------------------------------------
\* Vocabulary of the allocation properties

\* ROI of opportunity i as the ROI_WEIGHTED policy reads it
RoiOf(i) == roi_value(opportunities[i])

RoiWeighted ==
    /\ Allocated
    /\ plan.strategy = ROI_WEIGHTED
    /\ SumSeq(roi_values(opportunities)) # Zero

\* the capital opportunity i has in the plan: 0 when it is not in it
Received(i) ==
    IF InPlan(i)
    THEN plan.allocations[CHOOSE k \in 1 .. Len(plan.allocations) :
                              plan.allocations[k].opportunity = i].allocated_capital
    ELSE Zero

\* a * s = b * r, compared as a / r = b / s where both ROI are non-zero
InRatio(a, r, b, s) ==
    IF r = Zero \/ s = Zero THEN Mul(a, s) = Mul(b, r)
    ELSE Div(a, r) = Div(b, s)

\* every surviving allocation has total_capital * roi_i / sum_j roi_j, and
\* any two of them are in the ratio of their ROI
SurvivorsProportional ==
    /\ \A i \in 1 .. NumOpps :
           InPlan(i) =>
               Received(i) =
                   Div(Mul(plan.total_capital, RoiOf(i)),
                       SumSeq([j \in 1 .. NumOpps |-> RoiOf(j)]))
    /\ \A i, j \in 1 .. NumOpps :
           (InPlan(i) /\ InPlan(j)) =>
               InRatio(Received(i), RoiOf(i), Received(j), RoiOf(j))

\* C21 as stated: under ROI_WEIGHTED with a non-zero ROI sum the surviving
\* allocations are proportional to ROI, and an opportunity of higher ROI
\* never receives less capital than one of lower ROI.
C21_RoiProportional ==
    RoiWeighted =>
        /\ SurvivorsProportional
        /\ \A i, j \in 1 .. NumOpps :
               Gt(RoiOf(i), RoiOf(j)) => Ge(Received(i), Received(j))

\* C21 amended: the surviving allocations are proportional to ROI, and among
\* the surviving allocations one of higher ROI never has less capital.
C21_RoiProportionalSurvivors ==
    RoiWeighted =>
        /\ SurvivorsProportional
        /\ \A i, j \in 1 .. NumOpps :
               (InPlan(i) /\ InPlan(j) /\ Gt(RoiOf(i), RoiOf(j))) =>
                   Ge(Received(i), Received(j))

\* two opportunities of different ROI are both in the plan
C21_Witness ==
    /\ RoiWeighted
    /\ \E i, j \in 1 .. NumOpps :
           InPlan(i) /\ InPlan(j) /\ Gt(RoiOf(i), RoiOf(j))
                     /\ Gt(Received(i), Received(j))

\* an opportunity with positive leg prices and the higher ROI is not in the
\* plan while one of lower ROI is
PositiveHigherRoiLeftOut ==
    /\ RoiWeighted
    /\ \E i, j \in 1 .. NumOpps :
           /\ ~InPlan(i) /\ InPlan(j) /\ Gt(RoiOf(i), RoiOf(j))
           /\ Gt(LegYes(i), Zero) /\ Gt(LegNo(i), Zero)

-----------------------------------------------------------------------------
\* C22, C28: the validation pass

Validated == pc = "validated"

Warned(text) == \E k \in 1 .. Len(warnings) : warnings[k].text = text

\* C22: validate_allocations returns the over-50% warning exactly when
\* total_unallocated > 0.5 * total_capital and the no-opportunities warning
\* exactly when the plan has no allocation; it never raises, and the plan is
\* still the one allocate_capital returned.
C22_ValidationWarnings ==
    /\ pc # "validate_raised"
    /\ Validated =>
        /\ Warned(OVER_HALF) <=>
               Gt(plan.total_unallocated, Mul(Frac(1, 2), plan.total_capital))
        /\ Warned(NO_OPPORTUNITIES) <=> (Len(plan.allocations) = 0)
        /\ plan = allocate_capital(opportunities, plan.total_capital,
                                   plan.strategy)

\* a validated plan with an allocation, exactly half of the capital left over
\* and no warning
C22_Witness ==
    /\ Validated
    /\ Len(plan.allocations) > 0
    /\ Add(plan.total_unallocated, plan.total_unallocated) = plan.total_capital
    /\ Gt(plan.total_capital, Zero)
    /\ warnings = <<>>

\* a validated plan that drew both warnings
BothWarnings == Validated /\ Warned(OVER_HALF) /\ Warned(NO_OPPORTUNITIES)

\* a validated plan that drew the over-50% warning with an allocation in it
OverHalfWithAllocation ==
    Validated /\ Warned(OVER_HALF) /\ Len(plan.allocations) > 0

\* C28: on a plan allocate_capital produced, validate_allocations never emits
\* the below-minimum warning and never takes the branch that builds it.
C28_NoBelowMinimumWarning ==
    /\ (pc = "allocated") => ~message_can_raise(plan)
    /\ Validated => ~Warned(BELOW_MINIMUM)

\* a validated plan holding a leg bet of exactly the platform minimum
C28_Witness ==
    /\ Validated
    /\ \E k \in 1 .. Len(plan.allocations) :
           plan.allocations[k].bet_details.bet_yes = MinBet

-----------------------------------------------------------------------------
\* C23: refinement as a frame over the flat-price result

\* what ranking and allocation read of an opportunity
FlatResult(opp) ==
    [market |-> opp.market, market2_data |-> opp.market2_data,
     arbitrage |-> opp.arbitrage]

Ranking(opps) == sorted_by_roi(opps, Len(opps))

PlanOf(opps, total_capital, strategy) ==
    IF strategy = KELLY /\ kelly_raises(opps) THEN None
    ELSE allocate_capital(opps, total_capital, strategy)

\* the capital the plans of the comparison are computed for
RefinedCapital == Num(100)

\* longest list whose whole plans are compared
MaxPlanned == 3

\* every step that changes the list keeps the flat result, the ROI and the
\* bets of each opportunity and the ranking; the whole plans are compared
\* for the lists of up to MaxPlanned opportunities
FlatResultKept ==
    (pair_opportunities' # pair_opportunities) =>
        /\ Len(pair_opportunities') = Len(pair_opportunities)
        /\ \A i \in 1 .. Len(pair_opportunities) :
               /\ FlatResult(pair_opportunities'[i])
                      = FlatResult(pair_opportunities[i])
               /\ roi_value(pair_opportunities'[i])
                      = roi_value(pair_opportunities[i])
               /\ calculate_bet_amounts(pair_opportunities'[i], RefinedCapital)
                      = calculate_bet_amounts(pair_opportunities[i], RefinedCapital)
        /\ Ranking(pair_opportunities') = Ranking(pair_opportunities)
        /\ Len(pair_opportunities) <= MaxPlanned =>
               \A strategy \in AllocationStrategy :
                   PlanOf(pair_opportunities', RefinedCapital, strategy)
                       = PlanOf(pair_opportunities, RefinedCapital, strategy)

\* C23: no step of the refinement changes an opportunity's market,
\* market2_data or arbitrage record, so the ranking by ROI and the plan of
\* allocate_capital are the same before and after it.
C23_RefinementKeepsFlatResult == [][FlatResultKept]_vars

\* a finished refinement that stored a first-level ROI different from the
\* flat ROI of its opportunity, in a list of MaxPlanned opportunities that
\* allocate_capital funds
C23_Witness ==
    /\ rpc = "done"
    /\ Len(pair_opportunities) = MaxPlanned
    /\ \E i \in 1 .. Len(pair_opportunities) :
           /\ pair_opportunities[i].orderbook_roi_percent # None
           /\ pair_opportunities[i].orderbook_roi_percent
                  # pair_opportunities[i].arbitrage.best_strategy.roi_percent
    /\ PlanOf(pair_opportunities, RefinedCapital, EQUAL).num_opportunities > 0

-----------------------------------------------------------------------------
\* C25: the KELLY policy against the EQUAL policy

KellyPlanned == Allocated /\ plan.strategy = KELLY

BestCost(i) == opportunities[i].arbitrage.best_strategy.cost

CostInUnit(i) ==
    /\ opportunities[i].arbitrage.best_strategy # None
    /\ Gt(BestCost(i), Zero)
    /\ Lt(BestCost(i), One)

\* a plan without the label of its policy
Unlabelled(p) == [p EXCEPT !.strategy = EQUAL]

\* C25: under KELLY every opportunity whose best strategy costs more than 0
\* and less than 1 has the fraction 0.25 and only an opportunity without a
\* best strategy or of cost <= 0 has the fraction 0; a list of opportunities
\* all of cost in (0, 1) is proposed total_capital / N each and gets the plan
\* of EQUAL.
C25_KellyIsEqual ==
    KellyPlanned =>
        /\ \A i \in 1 .. NumOpps :
               /\ CostInUnit(i) => kelly_fraction(opportunities[i]) = Frac(1, 4)
               /\ kelly_fraction(opportunities[i]) = Zero =>
                      \/ opportunities[i].arbitrage.best_strategy = None
                      \/ Le(BestCost(i), Zero)
        /\ (NumOpps > 0 /\ \A i \in 1 .. NumOpps : CostInUnit(i)) =>
               /\ \A i \in 1 .. NumOpps :
                      kelly_share(opportunities, plan.total_capital)[i]
                          = Div(plan.total_capital, Num(NumOpps))
               /\ Unlabelled(plan) =
                      allocate_capital(opportunities, plan.total_capital, EQUAL)

\* a KELLY plan that funds two opportunities of different cost, both in (0, 1)
C25_Witness ==
    /\ KellyPlanned
    /\ NumOpps >= 2
    /\ \A i \in 1 .. NumOpps : CostInUnit(i)
    /\ \E i, j \in 1 .. NumOpps : InPlan(i) /\ InPlan(j) /\ BestCost(i) # BestCost(j)

\* a KELLY plan over a list mixing costs in (0, 1) with a cost of zero,
\* which is not the plan of EQUAL
KellyMixedList ==
    /\ KellyPlanned
    /\ \E i, j \in 1 .. NumOpps : CostInUnit(i) /\ ~CostInUnit(j)
    /\ Unlabelled(plan) # allocate_capital(opportunities, plan.total_capital, EQUAL)

-----------------------------------------------------------------------------
\* C26, C27: the amounts of a plan

BetDetails(k) == plan.allocations[k].bet_details

\* C26: in every allocation of a plan the two leg bets add up to the
\* allocated capital.
C26_BetsPartitionCapital ==
    Allocated =>
        \A k \in 1 .. Len(plan.allocations) :
            /\ Add(BetDetails(k).bet_yes, BetDetails(k).bet_no)
                   = plan.allocations[k].allocated_capital
            /\ BetDetails(k).allocated_capital
                   = plan.allocations[k].allocated_capital

\* a plan with an allocation whose two leg bets differ
C26_Witness ==
    /\ Allocated
    /\ \E k \in 1 .. Len(plan.allocations) :
           /\ BetDetails(k).bet_yes # BetDetails(k).bet_no
           /\ Gt(BetDetails(k).bet_no, Zero)


\* the allocations name opportunities of the list in strictly increasing
\* position: each at most once, in input order
InInputOrder ==
    /\ \A k \in 1 .. Len(plan.allocations) :
           plan.allocations[k].opportunity \in 1 .. NumOpps
    /\ \A k, l \in 1 .. Len(plan.allocations) :
           k < l => plan.allocations[k].opportunity < plan.allocations[l].opportunity

NonNegativeRoi == \A i \in 1 .. NumOpps : Ge(RoiOf(i), Zero)

\* C27: for total_capital >= 0 and opportunities of non-negative ROI, under
\* every policy 0 <= total_deployed <= total_capital and
\* total_unallocated >= 0, and every opportunity is in the allocations at
\* most once, in input order.
C27_WithinBudget ==
    (Allocated /\ Ge(plan.total_capital, Zero) /\ NonNegativeRoi) =>
        /\ Ge(plan.total_deployed, Zero)
        /\ Le(plan.total_deployed, plan.total_capital)
        /\ Ge(plan.total_unallocated, Zero)
        /\ InInputOrder

\* a plan of the ROI-weighted policy that deploys the whole capital on two
\* opportunities of different ROI
C27_Witness ==
    /\ Allocated
    /\ plan.strategy = ROI_WEIGHTED
    /\ Len(plan.allocations) >= 2
    /\ plan.total_deployed = plan.total_capital
    /\ \E i, j \in 1 .. NumOpps : InPlan(i) /\ InPlan(j) /\ RoiOf(i) # RoiOf(j)

-----------------------------------------------------------------------------
\* C29: the profit figures of a plan

BestOf(k) == opportunities[plan.allocations[k].opportunity].arbitrage.best_strategy

\* the guaranteed profit of investing the allocated capital in the strategy
GuaranteedProfit(k) ==
    Div(Mul(plan.allocations[k].allocated_capital, BestOf(k).profit),
        BestOf(k).cost)

\* C29: for every allocation of a plan, expected_profit is
\* allocated_capital * best.profit / best.cost, its roi_percent is the
\* roi_percent of the opportunity's best strategy, and overall_roi_percent
\* is at most the largest such ROI among the allocated opportunities.
C29_ExpectedProfitIsGuaranteed ==
    Allocated =>
        /\ \A k \in 1 .. Len(plan.allocations) :
               Gt(BestOf(k).cost, Zero) =>
                   /\ BetDetails(k).expected_profit = GuaranteedProfit(k)
                   /\ BetDetails(k).roi_percent = BestOf(k).roi_percent
        /\ Len(plan.allocations) > 0 =>
               \E k \in 1 .. Len(plan.allocations) :
                   Le(plan.overall_roi_percent, BestOf(k).roi_percent)

\* the plan of 20 on one opportunity of leg prices 0.4 and 0.4: expected
\* profit 12 and ROI 60 against a best strategy of ROI 25
ProfitAboveGuaranteed ==
    /\ Allocated
    /\ plan.total_capital = Num(20)
    /\ Len(plan.allocations) = 1
    /\ BetDetails(1).price_yes = Frac(2, 5)
    /\ BetDetails(1).price_no = Frac(2, 5)
    /\ BetDetails(1).expected_profit = Num(12)
    /\ GuaranteedProfit(1) = Num(5)
    /\ plan.overall_roi_percent = Num(60)
    /\ BestOf(1).roi_percent = Num(25)

-----------------------------------------------------------------------------
\* C24: the parallel fetch of the Polymarket books

Returned == fpc = "returned"

\* a fetch succeeded: it finished with a book that carries its asset id
Succeeded(f) ==
    /\ future_state[f] = "done"
    /\ future_result[f] = BookOf(future_to_token[f])

\* the lookup holds, under its asset id, exactly the book of every fetch of
\* the set
HoldsBooksOf(fetches) ==
    /\ DOMAIN orderbook_lookup = {future_to_token[f] : f \in fetches}
    /\ \A f \in fetches : orderbook_lookup[future_to_token[f]] = future_result[f]
    /\ \A a \in DOMAIN orderbook_lookup : orderbook_lookup[a].asset_id = a

\* C24: fetch_polymarket_orderbooks returns only when every submitted fetch
\* has finished, whatever the order in which the workers start and finish;
\* the lookup it returns has one entry per asset id, holds exactly the books
\* of the fetches that succeeded, and so keeps them whatever the other
\* fetches returned or raised. While it collects, the lookup holds the books
\* of the successful fetches collected so far.
C24_CompleteSnapshot ==
    /\ Returned =>
           /\ \A f \in Futures : future_state[f] = "done"
           /\ HoldsBooksOf({f \in Futures : Succeeded(f)})
    /\ (fpc = "collect_polymarket") =>
           HoldsBooksOf({f \in yielded : Succeeded(f)})

\* a returned lookup with the book of the last token, whose fetch finished
\* and was collected together with a raising fetch and a failed one
C24_Witness ==
    /\ Returned
    /\ Len(future_to_token) = MaxTokens
    /\ \E f, g \in Futures :
           /\ future_result[f] = Raised
           /\ future_result[g] = None
    /\ Succeeded(MaxTokens)
    /\ DOMAIN orderbook_lookup = {TokenId(MaxTokens)}

-----------------------------------------------------------------------------
\* C30: the Opinion lookup under every completion order and failure pattern

MarketKey(i) ==
    slug_title_key(opinion_markets[i].polymarket_slug,
                   opinion_markets[i].market_title)

Appears(i) == MarketKey(i) \in DOMAIN returned_lookup

\* some fetch of the token finished with a depth
FetchedDepth(token_id) ==
    \E f \in Futures :
        /\ future_to_token[f].token_id = token_id
        /\ future_state[f] = "done"
        /\ future_result[f] \notin {None, Raised, Pending}

\* the prices of the asks of the book the venue holds for a token
AskPrices(token_id) ==
    {float_of(OpinionBookOf(token_id).asks[k].price.text) :
         k \in 1 .. Len(OpinionBookOf(token_id).asks)}

IsLowestAsk(price, token_id) ==
    /\ OpinionBookOf(token_id).asks # <<>>
    /\ price \in AskPrices(token_id)
    /\ \A q \in AskPrices(token_id) : Le(price, q)

BothFetched(i) ==
    /\ has_tokens(opinion_markets[i])
    /\ FetchedDepth(opinion_markets[i].yes_token_id)
    /\ FetchedDepth(opinion_markets[i].no_token_id)

\* C30: whatever the order in which the token fetches finish and whichever
\* of them fail, a market is in the lookup get_opinion_price_lookup returns
\* only if the books of its YES and of its NO token were both fetched and
\* each has an ask; its yes_price and no_price are the lowest asks of the
\* two books, and a market with a missing book is not in the lookup.
C30_BothBooksOrOmitted ==
    Returned =>
        \A i \in 1 .. Len(opinion_markets) :
            /\ Appears(i) =>
                   /\ BothFetched(i)
                   /\ IsLowestAsk(returned_lookup[MarketKey(i)].yes_price,
                                  opinion_markets[i].yes_token_id)
                   /\ IsLowestAsk(returned_lookup[MarketKey(i)].no_price,
                                  opinion_markets[i].no_token_id)
            /\ ~BothFetched(i) => ~Appears(i)

\* a returned lookup with a market priced at the lower of the two asks of
\* its YES book
C30_Witness ==
    /\ Returned
    /\ Appears(1)
    /\ returned_lookup[MarketKey(1)].yes_price = Frac(9, 20)
    /\ returned_lookup[MarketKey(1)].no_price = Frac(1, 2)

\* a returned lookup without the market whose YES book came and whose NO
\* fetch raised
OneBookMissing ==
    /\ Returned
    /\ Len(opinion_markets) >= 1
    /\ has_tokens(opinion_markets[1])
    /\ FetchedDepth(opinion_markets[1].yes_token_id)
    /\ \E f \in Futures : future_to_token[f].market = 1 /\ future_result[f] = Raised
    /\ ~Appears(1)

====
